---- MODULE Spec2Model ----
(***************************************************************************)
(* Voice API streaming session engine (docker/voiceapi-raw-api).           *)
(*                                                                         *)
(* Spec      : one WebSocket connection handler (websocket_tts,            *)
(*             websocket_speaker_id, websocket_speaker_register,           *)
(*             websocket_asr) with its pump tasks, its stream objects and, *)
(*             for TTS, the engine calls running on worker threads.        *)
(* FairSpec  : Spec with weak fairness on every step of the event loop and *)
(*             of the worker threads (the peer is not obliged to act).     *)
(* CacheSpec : the module-level engine caches (_tts_engines,               *)
(*             _speaker_engines) from import on, under engine requests of  *)
(*             the startup hooks and of the connection handlers.           *)
(***************************************************************************)
EXTENDS Integers, Sequences, FiniteSets, TLC

\* ---------------------------------------------------------------- bounds
MaxFrames == 2      \* inbound frames the peer sends on one connection
MaxChunks == 1      \* callback invocations of one engine.generate call
samplerate == 2     \* the samplerate query parameter, in samples per second

Frames  == 1..MaxFrames
Streams == 1..MaxFrames      \* a handler creates at most one stream per frame

VARIABLES
    kind,         \* which handler serves the connection
    interrupt,    \* websocket_tts query parameter
    split,        \* websocket_tts query parameter
    transport,    \* "open" | "disconnected"
    hpc,          \* handler body: "gather" | "finished"
    tts_stream,   \* the handler's nonlocal tts_stream (0 = None)
    nStreams,     \* stream objects constructed so far
    is_closed,    \* [stream -> BOOLEAN]       self.is_closed
    outbuf,       \* [stream -> Seq(result)]   self.outbuf
    closeCalls,   \* [stream -> Nat]           calls of close() on the object
    recvPc,       \* inbound pump: "receive" | "write" | "done" | "raised"
    nFrames,      \* frames received so far
    writes,       \* [frame -> record]         the write() coroutine of each text frame
    sendPc,       \* outbound pump: "wait_stream" | "get" | "send" | "done" | "raised"
    rself,        \* stream whose read() the outbound pump is suspended in
    cur,          \* result the outbound pump is sending
    mon,          \* history of the queues and of the transport (see Observe)
    speaker_stream, \* the speaker handlers' speaker_stream (0 before it is made)
    inbuf,        \* SpeakerStream.inbuf: sample counts of the queued chunks
    audio_buffer, \* SpeakerStream.audio_buffer: samples buffered
    runPc,        \* SpeakerStream.run task: "none" | "get" | "busy" | "done"
    reg_buffer,   \* websocket_speaker_register's local audio_buffer: samples
    identification_threshold, \* SpeakerStream.identification_threshold, in hundredths
    tts_model,    \* args.tts_model
    speaker_model, \* args.speaker_model
    tts_engines,  \* voiceapi.tts._tts_engines: [model id -> handle]
    speaker_engines, \* voiceapi.speaker_id._speaker_engines: [model id -> handle]
    phase,        \* "startup" (the on_event hooks run) | "serving"
    call,         \* [caller -> record] the engine request each caller is in
    running,      \* caller that holds the event loop inside a request (0 = none)
    nObjs,        \* engine objects constructed so far
    nCalls,       \* engine requests made so far
    ctor,         \* history of the constructors and of the handles returned
    manager,          \* the SpeakerEmbeddingManager of the engine: name -> row
    speaker_files,    \* registered_speakers*.json: file -> name -> embedding
    enroll,           \* the enrollment each connection or request is making
    writer,           \* the enrollment that holds the event loop, or 0
    reg,              \* history of the enrollments
    wjob,             \* one TTSStream.write on a stream of its own: its locals
    conv,             \* one chunk on its way to PCM: the input and the result
    pump,             \* task_send_pcm of one TTS connection, frame by frame
    task,             \* one task of the URL processor and its row
    geo               \* the georegion detector: its state and emitted events

connVars == <<kind, interrupt, split, transport, hpc, tts_stream, nStreams,
              is_closed, outbuf, closeCalls, recvPc, nFrames, writes,
              sendPc, rself, cur, mon>>

spkVars == <<speaker_stream, inbuf, audio_buffer, runPc, reg_buffer,
            identification_threshold>>

cacheVars == <<tts_model, speaker_model, tts_engines, speaker_engines, phase,
               call, running, nObjs, nCalls, ctor>>

regVars == <<manager, speaker_files, enroll, writer, reg>>

fnVars == <<wjob, conv, pump, task, geo>>
exceptWjob == <<conv, pump, task, geo>>
exceptConv == <<wjob, pump, task, geo>>
exceptPump == <<wjob, conv, task, geo>>
exceptTask == <<wjob, conv, pump, geo>>
exceptGeo == <<wjob, conv, pump, task>>

vars == <<connVars, spkVars, cacheVars, regVars, fnVars>>

\* ------------------------------------------------------------ text frames
Delimiters == {".", "!"}          \* two of the characters of `splitter`
Whitespace == {" "}

\* frames a peer sends: "", "a", "a.b", " "
TextFrames == { <<>>, <<"a">>, <<"a", ".", "b">>, <<" ">> }

\* re.split(splitter, text)
RECURSIVE ReSplit(_)
ReSplit(t) ==
    IF t = <<>> THEN << <<>> >>
    ELSE LET rest == ReSplit(Tail(t)) IN
         IF Head(t) \in Delimiters
         THEN << <<>> >> \o rest
         ELSE << <<Head(t)>> \o Head(rest) >> \o Tail(rest)

\* a trim that removes nothing
Strip_Nothing(t) == t

RECURSIVE LStrip(_)
LStrip(t) == IF t # <<>> /\ Head(t) \in Whitespace THEN LStrip(Tail(t)) ELSE t

RECURSIVE RStrip(_)
RStrip(t) == IF t # <<>> /\ t[Len(t)] \in Whitespace
             THEN RStrip(SubSeq(t, 1, Len(t) - 1)) ELSE t

\* str.strip()
Strip(t) == RStrip(LStrip(t))

\* texts = re.split(splitter, text) if split else [text]
SplitTexts(text, sp) == IF sp THEN ReSplit(text) ELSE <<text>>

\* the for loop of write(): first index >= i whose stripped text is non-empty, 0 if none
NextSeg(texts, i) ==
    LET cand == { j \in i..Len(texts) : Strip(texts[j]) # <<>> }
    IN IF cand = {} THEN 0 ELSE CHOOSE j \in cand : \A k \in cand : j <= k

\* ---------------------------------------------------------------- results
\* TTSResult(pcm_bytes, finished); w, seg say which write and segment made it
TTSResult(pcm, fin, w, seg) ==
    [obj |-> "TTSResult", pcm_bytes |-> pcm, finished |-> fin, w |-> w, seg |-> seg]

\* the end-of-stream sentinel put by close()
None == [obj |-> "None"]

\* `if not result`: only the sentinel is falsy
IsNone(item) == item.obj = "None"

\* locals of a write() coroutine; a coroutine that is over holds none
NoWrite == [pc |-> "idle", self |-> 0, texts |-> <<>>, idx |-> 0, thr |-> "none", n |-> 0]

\* asyncio.Queue.put_nowait
PutOn(q, s, item) == [q EXCEPT ![s] = Append(@, item)]

\* a step's puts, in order, as <<stream, item>> pairs
RECURSIVE ApplyPuts(_, _)
ApplyPuts(q, puts) ==
    IF puts = <<>> THEN q
    ELSE ApplyPuts(PutOn(q, puts[1][1], puts[1][2]), Tail(puts))

\* <<w, seg>> pairs in the order the segments were submitted
SegBefore(a, b) == a[1] < b[1] \/ (a[1] = b[1] /\ a[2] < b[2])

\* ---------------------------------------------------------------- history
\* a counter that stops at 2
Count(n) == IF n < 2 THEN n + 1 ELSE n

\* What has happened on the queues, kept as the few facts the properties need:
\*   ended[s]      a sentinel has been put on stream s
\*   afterEnd[s]   a result has been put on s after a sentinel
\*   endsRead[s]   sentinels of s returned by read()
\*   finals[w]     finished=true results put by write w (counted up to 2)
\*   lateChunk[w]  a non-final result of write w was put after a final one of w
\*   last[s]       <<w, seg>> of the latest non-final result put on s
\*   reordered[s]  a non-final result of an earlier segment was put after a later one
\*   sentFinal     the writes whose finished=true summary was sent to the peer
\*   wroteClosed   a write was issued on a stream already closed
\*   openOld       a stream was created while an earlier one was not closed
\*   misnamed      a verdict was put that does not fit what the search returned
\*   registers     invocations of register_speaker (counted up to 2)
\*   earlyRegister register_speaker was invoked on less than 5 seconds of audio
\*   terminals     success or error messages sent to the peer (counted up to 2)
\*   termFailed    the send of a success or error message raised
\*   outOfOrder    a frame was consumed or "recording" was sent after the
\*                 invocation, or a success or error message was sent before it
NoHistory ==
    [ended     |-> [s \in Streams |-> FALSE],
     afterEnd  |-> [s \in Streams |-> FALSE],
     endsRead  |-> [s \in Streams |-> 0],
     finals    |-> [w \in Frames |-> 0],
     lateChunk |-> [w \in Frames |-> FALSE],
     last      |-> [s \in Streams |-> <<0, 0>>],
     reordered |-> [s \in Streams |-> FALSE],
     sentFinal |-> {},
     wroteClosed |-> FALSE,
     openOld   |-> FALSE,
     misnamed  |-> FALSE,
     registers |-> 0,
     earlyRegister |-> FALSE,
     terminals |-> 0,
     termFailed |-> FALSE,
     outOfOrder |-> FALSE]

ObservePut(m, s, item) ==
    IF IsNone(item)
    THEN [m EXCEPT !.ended[s] = TRUE]
    ELSE IF item.obj # "TTSResult"
    THEN [m EXCEPT !.afterEnd[s] = @ \/ m.ended[s]]
    ELSE IF item.finished
    THEN [m EXCEPT !.afterEnd[s] = @ \/ m.ended[s],
                   !.finals[item.w] = IF @ < 2 THEN @ + 1 ELSE @]
    ELSE [m EXCEPT !.afterEnd[s] = @ \/ m.ended[s],
                   !.lateChunk[item.w] = @ \/ m.finals[item.w] > 0,
                   !.reordered[s] = @ \/ SegBefore(<<item.w, item.seg>>, m.last[s]),
                   !.last[s] = <<item.w, item.seg>>]

RECURSIVE Observe(_, _)
Observe(m, puts) ==
    IF puts = <<>> THEN m
    ELSE Observe(ObservePut(m, puts[1][1], puts[1][2]), Tail(puts))

\* outcomes of engine.generate: audio, a null/empty result, an exception
EngineOutcomes == {"ok", "empty", "raise"}

\* ------------------------------------------------------- TTSStream (tts.py)
\* on_process, lines 219-220: a closed stream returns 0 before touching the chunk
OnProcessEnter(closed) == IF closed THEN "stopped" ELSE "cb"

\* on_process, line 234: return self.is_closed and 0 or 1 (0 stops the engine)
OnProcessReturn(closed) == IF closed THEN "stopped" ELSE "gen"

\* on_process called on the event loop (the silence gap of write, line 267)
OnProcessInline(closed, s, w, seg) ==
    IF closed THEN <<>> ELSE << <<s, TTSResult("silence", FALSE, w, seg)>> >>

\* write, line 265: a pause follows the segment unless it is the last of texts
AddsPause(sp, texts, idx) == sp /\ idx < Len(texts)

\* a write that ends without putting its final result
WriteFinal_Dropped(s, w) == <<>>

\* write, lines 281-286: the final result
WriteFinal(s, w) == << <<s, TTSResult("None", TRUE, w, 0)>> >>

\* write, lines 246-286: the for loop from index i up to its next suspension
\* (the to_thread call of the next non-empty segment) or to its end
WriteLoop(w, wr, i) ==
    LET j == NextSeg(wr.texts, i) IN
    IF j = 0
    THEN [wr |-> [NoWrite EXCEPT !.pc = "done"], puts |-> WriteFinal(wr.self, w)]
    ELSE [wr |-> [wr EXCEPT !.pc = "to_thread", !.idx = j, !.thr = "gen", !.n = 0],
          puts |-> <<>>]

\* close, lines 288-290
CloseFlag(ic, s) == [ic EXCEPT ![s] = TRUE]
ClosePut(s) == << <<s, None>> >>

\* --------------------------------------------- websocket_tts (app.py 951-1017)
\* a replacement made without closing the stream it replaces
ClosesOld_Never(intr, old) == FALSE

\* a pump that starts write() and goes back to receive without awaiting it
AfterWriteCall_NoAwait(wpc) == IF wpc = "raised" THEN "raised" ELSE "receive"

\* line 981: a stream is created when interrupting or when none exists
Replaces(intr, old) == intr \/ old = 0

\* lines 982-983: the existing stream is closed before its replacement is made
ClosesOld(intr, old) == Replaces(intr, old) /\ old # 0

\* line 992: `await tts_stream.write(...)`: the pump goes on only when write is over
AfterWriteCall(wpc) ==
    IF wpc = "done" THEN "receive" ELSE IF wpc = "raised" THEN "raised" ELSE "write"

\* line 986: start_tts_stream raises when get_tts_engine finds no cached engine
\* and cannot construct one; a connection that made a stream left one cached
StartRaises(loads, made) == ~loads /\ made = 0

\* task_recv_text, lines 976-992: one iteration of the loop on frame t;
\* loads says whether the engine can be constructed if it is not cached
RecvText(t, loads) ==
    /\ kind = "tts" /\ recvPc = "receive" /\ transport = "open"
    /\ nFrames < MaxFrames
    /\ loads \/ (t # <<>> /\ nStreams = 0)
    /\ nFrames' = nFrames + 1
    /\ IF t = <<>>
       THEN /\ recvPc' = "done"
            /\ UNCHANGED <<tts_stream, nStreams, is_closed, outbuf, closeCalls,
                           writes, mon>>
       ELSE IF StartRaises(loads, nStreams)
       THEN /\ recvPc' = "raised"
            /\ UNCHANGED <<tts_stream, nStreams, is_closed, outbuf, closeCalls,
                           writes, mon>>
       ELSE LET w   == nFrames + 1
                old == tts_stream
                s   == IF Replaces(interrupt, old) THEN nStreams + 1 ELSE old
                ic1 == IF ClosesOld(interrupt, old) THEN CloseFlag(is_closed, old)
                       ELSE is_closed
                p1  == IF ClosesOld(interrupt, old) THEN ClosePut(old) ELSE <<>>
                r   == WriteLoop(w, [NoWrite EXCEPT !.self = s,
                                                    !.texts = SplitTexts(t, split)], 1)
                m1  == [mon EXCEPT
                          !.wroteClosed = @ \/ ic1[s],
                          !.openOld = @ \/ (Replaces(interrupt, old) /\
                                            \E x \in 1..nStreams : ~ic1[x])]
            IN /\ tts_stream' = s
               /\ nStreams' = IF Replaces(interrupt, old) THEN nStreams + 1 ELSE nStreams
               /\ is_closed' = ic1
               /\ closeCalls' = IF ClosesOld(interrupt, old)
                                THEN [closeCalls EXCEPT ![old] = @ + 1] ELSE closeCalls
               /\ outbuf' = ApplyPuts(outbuf, p1 \o r.puts)
               /\ mon' = Observe(m1, p1 \o r.puts)
               /\ writes' = [writes EXCEPT ![w] = r.wr]
               /\ recvPc' = AfterWriteCall(r.wr.pc)
    /\ UNCHANGED <<kind, interrupt, split, transport, hpc, sendPc, rself, cur,
                   spkVars>>
    /\ UNCHANGED <<cacheVars, regVars, fnVars>>

\* receive_text on a closed transport raises WebSocketDisconnect (line 977)
RecvDisconnect ==
    /\ kind = "tts" /\ recvPc = "receive" /\ transport = "disconnected"
    /\ recvPc' = "raised"
    /\ UNCHANGED <<kind, interrupt, split, transport, hpc, tts_stream, nStreams,
                   is_closed, outbuf, closeCalls, nFrames, writes, sendPc, rself,
                   cur, mon, spkVars>>
    /\ UNCHANGED <<cacheVars, regVars, fnVars>>

\* the worker thread: the engine calls on_process (tts.py 218-220)
EngineCallback(w) ==
    /\ writes[w].pc = "to_thread" /\ writes[w].thr = "gen"
    /\ writes[w].n < MaxChunks
    /\ writes' = [writes EXCEPT ![w].thr = OnProcessEnter(is_closed[writes[w].self])]
    /\ UNCHANGED <<kind, interrupt, split, transport, hpc, tts_stream, nStreams,
                   is_closed, outbuf, closeCalls, recvPc, nFrames, sendPc, rself,
                   cur, mon, spkVars>>
    /\ UNCHANGED <<cacheVars, regVars, fnVars>>

\* the worker thread: on_process enqueues the chunk and returns (tts.py 222-234)
OnProcessPut(w) ==
    /\ writes[w].pc = "to_thread" /\ writes[w].thr = "cb"
    /\ LET puts == << <<writes[w].self, TTSResult("pcm", FALSE, w, writes[w].idx)>> >>
       IN /\ outbuf' = ApplyPuts(outbuf, puts)
          /\ mon' = Observe(mon, puts)
    /\ writes' = [writes EXCEPT ![w].thr = OnProcessReturn(is_closed[writes[w].self]),
                                ![w].n = @ + 1]
    /\ UNCHANGED <<kind, interrupt, split, transport, hpc, tts_stream, nStreams,
                   is_closed, closeCalls, recvPc, nFrames, sendPc, rself, cur,
                   spkVars>>
    /\ UNCHANGED <<cacheVars, regVars, fnVars>>

\* engine.generate returns or raises on the worker thread and write resumes on
\* the event loop after to_thread (tts.py 256-286)
WriteResume(w, outcome) ==
    /\ writes[w].pc = "to_thread" /\ writes[w].thr \in {"gen", "stopped"}
    /\ LET wr == writes[w]
           awaited == recvPc = "write" /\ w = nFrames
           p1 == IF outcome = "ok" /\ AddsPause(split, wr.texts, wr.idx)
                 THEN OnProcessInline(is_closed[wr.self], wr.self, w, wr.idx)
                 ELSE <<>>
           r  == IF outcome = "raise"
                 THEN [wr |-> [NoWrite EXCEPT !.pc = "raised"], puts |-> <<>>]
                 ELSE WriteLoop(w, wr, wr.idx + 1)
       IN /\ writes' = [writes EXCEPT ![w] = r.wr]
          /\ outbuf' = ApplyPuts(outbuf, p1 \o r.puts)
          /\ mon' = Observe(mon, p1 \o r.puts)
          /\ recvPc' = IF awaited THEN AfterWriteCall(r.wr.pc) ELSE recvPc
    /\ UNCHANGED <<kind, interrupt, split, transport, hpc, tts_stream, nStreams,
                   is_closed, closeCalls, nFrames, sendPc, rself, cur, spkVars>>
    /\ UNCHANGED <<cacheVars, regVars, fnVars>>

\* a pump that treats the end sentinel as one more result to send
SendLoop_PastSentinel(s, m) ==
    IF outbuf[s] = <<>>
    THEN /\ sendPc' = "get" /\ rself' = s
         /\ mon' = m
         /\ UNCHANGED <<outbuf, cur>>
    ELSE /\ outbuf' = [outbuf EXCEPT ![s] = Tail(@)]
         /\ rself' = 0
         /\ sendPc' = "send" /\ cur' = Head(outbuf[s])
         /\ mon' = m

\* task_send_pcm, lines 1000-1009: from `await tts_stream.read()` to the next
\* suspension: blocked in get(), returned on the sentinel, or sending a result
SendLoop(s, m) ==
    IF outbuf[s] = <<>>
    THEN /\ sendPc' = "get" /\ rself' = s
         /\ mon' = m
         /\ UNCHANGED <<outbuf, cur>>
    ELSE /\ outbuf' = [outbuf EXCEPT ![s] = Tail(@)]
         /\ rself' = 0
         /\ IF IsNone(Head(outbuf[s]))
            THEN /\ sendPc' = "done" /\ cur' = None
                 /\ mon' = [m EXCEPT !.endsRead[s] = @ + 1]
            ELSE /\ sendPc' = "send" /\ cur' = Head(outbuf[s])
                 /\ mon' = m

\* task_send_pcm, lines 996-998: the poll for the stream to exist
SendPoll ==
    /\ kind = "tts" /\ sendPc = "wait_stream" /\ tts_stream # 0
    /\ SendLoop(tts_stream, mon)
    /\ UNCHANGED <<kind, interrupt, split, transport, hpc, tts_stream, nStreams,
                   is_closed, closeCalls, recvPc, nFrames, writes, spkVars>>
    /\ UNCHANGED <<cacheVars, regVars, fnVars>>

\* read() returns: the get() the pump was suspended in has an item (tts.py 293-294)
SendWake ==
    /\ kind = "tts" /\ sendPc = "get" /\ outbuf[rself] # <<>>
    /\ SendLoop(rself, mon)
    /\ UNCHANGED <<kind, interrupt, split, transport, hpc, tts_stream, nStreams,
                   is_closed, closeCalls, recvPc, nFrames, writes, spkVars>>
    /\ UNCHANGED <<cacheVars, regVars, fnVars>>

\* send_json / send_bytes completes, the loop reads again (lines 1005-1009, 1001)
SendComplete ==
    /\ kind = "tts" /\ sendPc = "send" /\ transport = "open"
    /\ SendLoop(tts_stream,
                IF ~IsNone(cur) /\ cur.finished THEN [mon EXCEPT !.sentFinal = @ \cup {cur.w}] ELSE mon)
    /\ UNCHANGED <<kind, interrupt, split, transport, hpc, tts_stream, nStreams,
                   is_closed, closeCalls, recvPc, nFrames, writes, spkVars>>
    /\ UNCHANGED <<cacheVars, regVars, fnVars>>

\* send_json / send_bytes on a closed transport raises
SendFail ==
    /\ kind = "tts" /\ sendPc = "send" /\ transport = "disconnected"
    /\ sendPc' = "raised" /\ cur' = None
    /\ UNCHANGED <<kind, interrupt, split, transport, hpc, tts_stream, nStreams,
                   is_closed, outbuf, closeCalls, recvPc, nFrames, writes, rself,
                   mon, spkVars>>
    /\ UNCHANGED <<cacheVars, regVars, fnVars>>

\* asyncio.gather (line 1012) is over: a pump raised, or both returned
GatherOver ==
    \/ recvPc = "raised" \/ sendPc = "raised"
    \/ (recvPc = "done" /\ sendPc = "done")

\* a finally clause that closes nothing
FinallyCloses_Never(stream) == FALSE

\* line 1016: `if tts_stream:`
FinallyCloses(stream) == stream # 0

\* lines 1011-1017: except / finally, then the server closes the connection
TtsFinally ==
    /\ kind = "tts" /\ hpc = "gather" /\ GatherOver
    /\ hpc' = "finished"
    /\ transport' = "disconnected"
    /\ IF FinallyCloses(tts_stream)
       THEN /\ is_closed' = CloseFlag(is_closed, tts_stream)
            /\ outbuf' = ApplyPuts(outbuf, ClosePut(tts_stream))
            /\ mon' = Observe(mon, ClosePut(tts_stream))
            /\ closeCalls' = [closeCalls EXCEPT ![tts_stream] = @ + 1]
       ELSE UNCHANGED <<is_closed, outbuf, closeCalls, mon>>
    /\ UNCHANGED <<kind, interrupt, split, tts_stream, nStreams, recvPc,
                   nFrames, writes, sendPc, rself, cur, spkVars>>
    /\ UNCHANGED <<cacheVars, regVars, fnVars>>

\* the peer goes away
PeerDisconnect ==
    /\ transport = "open"
    /\ transport' = "disconnected"
    /\ UNCHANGED <<kind, interrupt, split, hpc, tts_stream, nStreams, is_closed,
                   outbuf, closeCalls, recvPc, nFrames, writes, sendPc, rself,
                   cur, mon, spkVars>>
    /\ UNCHANGED <<cacheVars, regVars, fnVars>>

\* websocket_tts after accept(): line 972 and the two pumps started by gather
TtsInit ==
    /\ kind = "tts"
    /\ interrupt \in BOOLEAN /\ split \in BOOLEAN
    /\ transport = "open" /\ hpc = "gather"
    /\ tts_stream = 0 /\ nStreams = 0
    /\ is_closed = [s \in Streams |-> FALSE]
    /\ outbuf = [s \in Streams |-> <<>>]
    /\ closeCalls = [s \in Streams |-> 0]
    /\ recvPc = "receive" /\ nFrames = 0
    /\ writes = [w \in Frames |-> NoWrite]
    /\ sendPc = "wait_stream" /\ rself = 0 /\ cur = None
    /\ mon = NoHistory
    /\ speaker_stream = 0 /\ inbuf = <<>> /\ audio_buffer = 0
    /\ runPc = "none" /\ reg_buffer = 0
    /\ identification_threshold = 0

TtsStep ==
    \/ \E t \in TextFrames, loads \in BOOLEAN : RecvText(t, loads)
    \/ RecvDisconnect
    \/ \E w \in Frames : EngineCallback(w)
    \/ \E w \in Frames : OnProcessPut(w)
    \/ \E w \in Frames, o \in EngineOutcomes : WriteResume(w, o)
    \/ SendPoll
    \/ SendWake
    \/ SendComplete
    \/ SendFail
    \/ TtsFinally

\* ---------------------------------------- SpeakerStream (speaker_id.py 28-100)
MinDuration == 3        \* self.min_duration = 3.0 seconds
RegMinDuration == 5     \* min_duration = 5.0 seconds of websocket_speaker_register

\* PCM frames a peer sends, by byte length: empty, odd, 1 second, 3 seconds
PcmFrames == {0, 3, 2 * samplerate, 6 * samplerate}

\* frames sent for an enrollment: empty, odd, 2 seconds, 5 seconds
RegFrames == {0, 3, 4 * samplerate, 10 * samplerate}

\* names manager.search can return; "" is no match
SearchResults == {"", "alice"}

\* values of --speaker-threshold, in hundredths
Thresholds == {70, 80}

\* start_speaker_stream, lines 312-318: the default is lowered for NeMo
StreamThreshold(model, th) ==
    IF model = "nemo-speakernet" /\ th = 70 THEN 60 ELSE th

\* an embedding is named by the number of samples it was computed from
SpeakerResult(id, conf, emb) ==
    [obj |-> "SpeakerResult", speaker_id |-> id, confidence |-> conf,
     embeddings |-> emb]

\* a verdict that names nobody, whatever the search returned
Verdict_Unnamed(found, th, emb) == SpeakerResult("unknown", 0, emb)

\* the two shapes of a verdict: the name found with a confidence of at least
\* the threshold, or "unknown" with confidence 0; each with the embedding
FitsSearch(v, found, th, emb) ==
    /\ IF found # "" THEN v.speaker_id = found /\ v.confidence >= th
       ELSE v.speaker_id = "unknown" /\ v.confidence = 0
    /\ v.embeddings = emb

\* run, line 75: confidence = self.identification_threshold + 0.05
Confidence(th) == th + 5

\* run, lines 72-85: the verdict for what manager.search returned
Verdict(found, th, emb) ==
    IF found # "" THEN SpeakerResult(found, Confidence(th), emb)
    ELSE SpeakerResult("unknown", 0, emb)

\* np.frombuffer(pcm_bytes, dtype=np.int16): the sample count, -1 for the
\* ValueError raised on a length that is no multiple of 2
FromBuffer(nbytes) == IF nbytes % 2 = 0 THEN nbytes \div 2 ELSE -1

\* a loop that scores whatever is buffered
EnoughAudio_Always(samples, minDuration) == TRUE

\* run, lines 54-55: duration = len(audio_buffer) / sample_rate >= min_duration
EnoughAudio(samples, minDuration) == samples >= minDuration * samplerate

\* run, lines 49-88: one iteration of the loop, from the return of inbuf.get().
\* The task goes on without yielding while inbuf holds chunks ("busy").
RunIter(ready, found) ==
    /\ kind \in {"speaker_id", "speaker_register"}
    /\ \/ runPc = "get" /\ inbuf # <<>>
       \/ runPc = "busy"
    /\ LET buf   == audio_buffer + Head(inbuf)
           emits == EnoughAudio(buf, MinDuration) /\ ready
           puts  == IF emits
                    THEN << <<speaker_stream,
                              Verdict(found, identification_threshold, buf)>> >>
                    ELSE <<>>
       IN /\ inbuf' = Tail(inbuf)
          /\ audio_buffer' = IF emits THEN 0 ELSE buf
          /\ outbuf' = ApplyPuts(outbuf, puts)
          /\ mon' = [Observe(mon, puts) EXCEPT
                        !.misnamed = @ \/ (emits /\ ~FitsSearch(puts[1][2], found,
                                                  identification_threshold, buf))]
          /\ runPc' = IF is_closed[speaker_stream] THEN "done"
                      ELSE IF Tail(inbuf) # <<>> THEN "busy" ELSE "get"
    /\ UNCHANGED <<kind, interrupt, split, transport, hpc, tts_stream, nStreams,
                   is_closed, closeCalls, recvPc, nFrames, writes, sendPc, rself,
                   cur, speaker_stream, reg_buffer, identification_threshold>>
    /\ UNCHANGED <<cacheVars, regVars, fnVars>>

\* ------------------------------------- websocket_speaker_id (app.py 838-867)
\* task_recv_pcm, lines 850-854, with SpeakerStream.write (speaker_id.py 94-97)
SpkRecv(b) ==
    /\ kind = "speaker_id" /\ recvPc = "receive" /\ transport = "open"
    /\ runPc # "busy"
    /\ nFrames < MaxFrames
    /\ nFrames' = nFrames + 1
    /\ IF b = 0 THEN recvPc' = "done" /\ inbuf' = inbuf
       ELSE IF FromBuffer(b) < 0 THEN recvPc' = "raised" /\ inbuf' = inbuf
       ELSE recvPc' = "receive" /\ inbuf' = Append(inbuf, FromBuffer(b))
    /\ UNCHANGED <<kind, interrupt, split, transport, hpc, tts_stream, nStreams,
                   is_closed, outbuf, closeCalls, writes, sendPc, rself, cur, mon,
                   speaker_stream, audio_buffer, runPc, reg_buffer,
                   identification_threshold>>
    /\ UNCHANGED <<cacheVars, regVars, fnVars>>

\* receive_bytes on a closed transport raises WebSocketDisconnect (line 851)
SpkRecvDisconnect ==
    /\ kind = "speaker_id" /\ recvPc = "receive" /\ transport = "disconnected"
    /\ runPc # "busy"
    /\ recvPc' = "raised"
    /\ UNCHANGED <<kind, interrupt, split, transport, hpc, tts_stream, nStreams,
                   is_closed, outbuf, closeCalls, nFrames, writes, sendPc, rself,
                   cur, mon, spkVars>>
    /\ UNCHANGED <<cacheVars, regVars, fnVars>>

\* task_send_result, lines 857-860: read() returns (speaker_id.py 99-100)
SpkSendWake ==
    /\ kind = "speaker_id" /\ sendPc = "get" /\ outbuf[rself] # <<>>
    /\ runPc # "busy"
    /\ SendLoop(rself, mon)
    /\ UNCHANGED <<kind, interrupt, split, transport, hpc, tts_stream, nStreams,
                   is_closed, closeCalls, recvPc, nFrames, writes, spkVars>>
    /\ UNCHANGED <<cacheVars, regVars, fnVars>>

\* task_send_result, line 861: send_json completes, the loop reads again
SpkSendComplete ==
    /\ kind = "speaker_id" /\ sendPc = "send" /\ transport = "open"
    /\ runPc # "busy"
    /\ SendLoop(speaker_stream, mon)
    /\ UNCHANGED <<kind, interrupt, split, transport, hpc, tts_stream, nStreams,
                   is_closed, closeCalls, recvPc, nFrames, writes, spkVars>>
    /\ UNCHANGED <<cacheVars, regVars, fnVars>>

\* task_send_result, line 861: send_json on a closed transport raises
SpkSendFail ==
    /\ kind = "speaker_id" /\ sendPc = "send" /\ transport = "disconnected"
    /\ runPc # "busy"
    /\ sendPc' = "raised" /\ cur' = None
    /\ UNCHANGED <<kind, interrupt, split, transport, hpc, tts_stream, nStreams,
                   is_closed, outbuf, closeCalls, recvPc, nFrames, writes, rself,
                   mon, spkVars>>
    /\ UNCHANGED <<cacheVars, regVars, fnVars>>

\* lines 862-867: except / finally, then the server closes the connection
SpkFinally ==
    /\ kind = "speaker_id" /\ hpc = "gather" /\ GatherOver
    /\ runPc # "busy"
    /\ hpc' = "finished"
    /\ transport' = "disconnected"
    /\ is_closed' = CloseFlag(is_closed, speaker_stream)
    /\ outbuf' = ApplyPuts(outbuf, ClosePut(speaker_stream))
    /\ mon' = Observe(mon, ClosePut(speaker_stream))
    /\ closeCalls' = [closeCalls EXCEPT ![speaker_stream] = @ + 1]
    /\ UNCHANGED <<kind, interrupt, split, tts_stream, nStreams, recvPc,
                   nFrames, writes, sendPc, rself, cur, spkVars>>
    /\ UNCHANGED <<cacheVars, regVars, fnVars>>

\* websocket_speaker_id after start_speaker_stream (line 843): the run task
\* and the reading pump are suspended in get(), the writing pump in receive
SpkIdInit ==
    /\ kind = "speaker_id"
    /\ interrupt = FALSE /\ split = FALSE
    /\ transport = "open" /\ hpc = "gather"
    /\ tts_stream = 0 /\ nStreams = 1
    /\ is_closed = [s \in Streams |-> FALSE]
    /\ outbuf = [s \in Streams |-> <<>>]
    /\ closeCalls = [s \in Streams |-> 0]
    /\ recvPc = "receive" /\ nFrames = 0
    /\ writes = [w \in Frames |-> NoWrite]
    /\ sendPc = "get" /\ rself = 1 /\ cur = None
    /\ mon = NoHistory
    /\ speaker_stream = 1 /\ inbuf = <<>> /\ audio_buffer = 0
    /\ runPc = "get" /\ reg_buffer = 0
    /\ identification_threshold \in
           { StreamThreshold("nemo-speakernet", th) : th \in Thresholds }

SpkStep ==
    \/ \E b \in PcmFrames : SpkRecv(b)
    \/ SpkRecvDisconnect
    \/ \E ready \in BOOLEAN, found \in SearchResults : RunIter(ready, found)
    \/ SpkSendWake
    \/ SpkSendComplete
    \/ SpkSendFail
    \/ SpkFinally

\* ------------------- the speaker registry (speaker_id.py 102-149, app.py
\* 441-503): the manager in memory and the registered_speakers files
MaxEnrollers == 2   \* connections and requests that enroll in one process

Enrollers == 1..MaxEnrollers

Names == {"alice", "bob"}

\* an embedding is <<dimension, value>>; <<>> is no entry
Dims == {256, 512, 1024}
Embeddings == { <<d, v>> : d \in Dims, v \in {1, 2} } \ { <<1024, 2>> }
NoEmbedding == <<>>

NemoFile == "registered_speakers_nemo.json"
OtherFile == "registered_speakers.json"
SpeakerFiles == {NemoFile, OtherFile}

\* SpeakerEmbeddingManager(256) for nemo-speakernet, (512) for the other models
ManagerDim(model) == IF model = "nemo-speakernet" THEN 256 ELSE 512

\* the file a model is loaded from
FileOfModel(model) == IF model = "nemo-speakernet" THEN NemoFile ELSE OtherFile

\* `if len(embeddings) == 256:` chooses the file an enrollment is saved to
FileOfEmbedding(e) == IF e[1] = 256 THEN NemoFile ELSE OtherFile

\* manager.add(name, embeddings), whose result the callers drop: a name that
\* is present keeps its row; a new name gets a row of the manager's
\* dimension, the first floats of the vector
ManagerAdd(mgr, name, e, dim) ==
    IF mgr[name] # NoEmbedding THEN mgr ELSE [mgr EXCEPT ![name] = <<dim, e[2]>>]

\* existing_speakers[name] = embeddings_list; json.dump(existing_speakers, f)
Written(existing, name, e) == [existing EXCEPT ![name] = e]

\* what the enrollment reports once the save has returned (saved) or raised:
\* register_speaker logs the exception and returns True (speaker_id.py
\* 143-146); register_speaker_direct answers HTTP 500 (app.py 508-510)
Reports(via, saved) ==
    IF via = "stream" \/ saved THEN "success" ELSE "error"

\* an enrollment that gives the event loop away between reading the file and
\* writing it
SaveSuspends_AfterRead(via) == TRUE

\* register_speaker and register_speaker_direct have no await between
\* json.load and json.dump
SaveSuspends(via) == FALSE

NoEnroll == [pc |-> "idle", via |-> "none", name |-> "none", emb |-> NoEmbedding,
             existing |-> <<>>, result |-> "none"]

\* history of the enrollments since the process started:
\*   wins[n]     enrollments of name n that reported success (counted up to 2)
\*   prev[n]     the embedding of the success before the latest one
\*   last[n]     the embedding of the latest success
\*   saveFailed  a write of a registry file raised
\*   gone[n]     n was deleted with success and not enrolled since
\*   lateVerdict a verdict named a speaker that was gone
NoEnrollments ==
    [wins |-> [n \in Names |-> 0],
     prev |-> [n \in Names |-> NoEmbedding],
     last |-> [n \in Names |-> NoEmbedding],
     saveFailed |-> FALSE,
     gone |-> [n \in Names |-> FALSE],
     lateVerdict |-> FALSE]

\* register_speaker, lines 104-126 (via = "stream", ready is
\* extractor.is_ready) / register_speaker_direct, lines 445-485 with
\* caller-supplied embeddings (via = "direct"): the embedding, manager.add and
\* the read of the file
Register(c, via, name, e, ready) ==
    /\ enroll[c].pc = "idle" /\ writer = 0
    /\ via = "stream" => e[1] = ManagerDim(speaker_model)
    /\ via = "direct" => ready /\ e[1] >= ManagerDim(speaker_model)
    /\ IF ready
       THEN /\ manager' = ManagerAdd(manager, name, e, ManagerDim(speaker_model))
            /\ enroll' = [enroll EXCEPT ![c] =
                             [pc |-> "save", via |-> via, name |-> name, emb |-> e,
                              existing |-> speaker_files[FileOfEmbedding(e)],
                              result |-> "none"]]
            /\ writer' = IF SaveSuspends(via) THEN 0 ELSE c
       ELSE /\ enroll' = [enroll EXCEPT ![c] =
                             [pc |-> "done", via |-> via, name |-> name, emb |-> e,
                              existing |-> <<>>, result |-> "error"]]
            /\ UNCHANGED <<manager, writer>>
    /\ reg' = [reg EXCEPT !.gone[name] = FALSE]
    /\ UNCHANGED speaker_files
    /\ UNCHANGED <<connVars, spkVars, cacheVars, fnVars>>

\* register_speaker, lines 128-147 / register_speaker_direct, lines 487-503:
\* the write of the file and the report; saveOk says whether the write returns
Save(c, saveOk) ==
    /\ enroll[c].pc = "save" /\ writer \in {0, c}
    /\ writer' = 0
    /\ LET r      == enroll[c]
           f      == FileOfEmbedding(r.emb)
           files  == IF saveOk
                     THEN [speaker_files EXCEPT ![f] = Written(r.existing, r.name, r.emb)]
                     ELSE speaker_files
           result == Reports(r.via, saveOk)
           won    == result = "success"
       IN /\ speaker_files' = files
          /\ enroll' = [enroll EXCEPT ![c].pc = "done", ![c].existing = <<>>,
                                      ![c].result = result]
          /\ reg' = [reg EXCEPT
                       !.wins[r.name] = IF won THEN Count(@) ELSE @,
                       !.prev[r.name] = IF won THEN reg.last[r.name] ELSE @,
                       !.last[r.name] = IF won THEN r.emb ELSE @,
                       !.saveFailed = @ \/ ~saveOk]
    /\ UNCHANGED manager
    /\ UNCHANGED <<connVars, spkVars, cacheVars, fnVars>>

\* what known_speakers.json holds at a start: nothing, or a profile of alice
\* of 256 or of 512 floats
KnownSpeakers ==
    { [n \in Names |-> IF n = "alice" THEN k ELSE NoEmbedding] :
        k \in {NoEmbedding, <<256, 2>>, <<512, 2>>} }

\* load_known_speakers, lines 116-153: the profiles of the expected dimension
\* are merged into the file of the model, the others are skipped
Merged(file, known, dim) ==
    [n \in Names |-> IF known[n] # NoEmbedding /\ known[n][1] = dim
                     THEN known[n] ELSE file[n]]

\* create_nemo_speakernet, lines 265-277 / reload_speakers_into_engine, lines
\* 186-192: every entry of the file is added to a new manager
Loaded(file, dim) ==
    [n \in Names |-> IF file[n] = NoEmbedding THEN NoEmbedding
                     ELSE <<dim, file[n][2]>>]

\* the process starts again on the files it wrote: initialize_models loads the
\* manager, load_known_speakers merges known_speakers.json and reloads
Restart(known) ==
    /\ writer = 0
    /\ \A c \in Enrollers : enroll[c].pc # "save"
    /\ LET dim  == ManagerDim(speaker_model)
           f    == FileOfModel(speaker_model)
           file == Merged(speaker_files[f], known, dim)
       IN /\ speaker_files' = [speaker_files EXCEPT ![f] = file]
          /\ manager' = Loaded(file, dim)
    /\ reg' = [NoEnrollments EXCEPT !.saveFailed = reg.saveFailed,
                                    !.lateVerdict = reg.lateVerdict]
    /\ UNCHANGED <<enroll, writer>>
    /\ UNCHANGED <<connVars, spkVars, cacheVars, fnVars>>

\* delete_speaker, lines 513-547: the manager is not touched
DeleteManager(mgr, name) == mgr

\* delete_speaker, lines 513-547: 404 when the file of the model does not
\* hold the name, else the name is removed from the file and success reported
Delete(name) ==
    /\ writer = 0
    /\ LET f == FileOfModel(speaker_model)
       IN IF speaker_files[f][name] = NoEmbedding
          THEN UNCHANGED <<speaker_files, manager, reg>>
          ELSE /\ speaker_files' = [speaker_files EXCEPT ![f][name] = NoEmbedding]
               /\ manager' = DeleteManager(manager, name)
               /\ reg' = [reg EXCEPT !.gone[name] = TRUE, !.wins[name] = 0,
                                      !.prev[name] = NoEmbedding,
                                      !.last[name] = NoEmbedding]
    /\ UNCHANGED <<enroll, writer>>
    /\ UNCHANGED <<connVars, spkVars, cacheVars, fnVars>>

\* get_registered_speakers, lines 414-438: the names in the file of the model
Listed(files, model) == { n \in Names : files[FileOfModel(model)][n] # NoEmbedding }

\* SpeakerStream.run, lines 63-79: manager.search finds a name the manager
\* holds and a verdict with that name is put
Identify(found) ==
    /\ manager[found] # NoEmbedding
    /\ reg' = [reg EXCEPT !.lateVerdict = @ \/ reg.gone[found]]
    /\ UNCHANGED <<manager, speaker_files, enroll, writer>>
    /\ UNCHANGED <<connVars, spkVars, cacheVars, fnVars>>

\* no speaker registered
RegistryEmpty ==
    /\ manager = [n \in Names |-> NoEmbedding]
    /\ speaker_files = [f \in SpeakerFiles |-> [n \in Names |-> NoEmbedding]]
    /\ enroll = [c \in Enrollers |-> NoEnroll]
    /\ writer = 0
    /\ reg = NoEnrollments

\* ------------------------------- websocket_speaker_register (app.py 874-944)
\* lines 941-944: the finally clause, reached by break or by an exception
RegFinally ==
    /\ hpc' = "finished"
    /\ transport' = "disconnected"
    /\ is_closed' = CloseFlag(is_closed, speaker_stream)
    /\ outbuf' = ApplyPuts(outbuf, ClosePut(speaker_stream))
    /\ mon' = Observe(mon, ClosePut(speaker_stream))
    /\ closeCalls' = [closeCalls EXCEPT ![speaker_stream] = @ + 1]

\* a handler that goes on receiving after the success or error message
Breaks_Never(status) == FALSE

\* line 936: `break` after the success or error message
Breaks(status) == status # "recording"

\* lines 892-939: one iteration of the loop on a frame of b bytes, up to the
\* send_json it suspends in; with 5 seconds buffered it runs register_speaker
\* for name (ready is extractor.is_ready, saveOk whether the write returns)
RegRecv(b, name, ready, saveOk) ==
    /\ kind = "speaker_register" /\ hpc = "receive" /\ transport = "open"
    /\ nFrames < MaxFrames
    /\ nFrames' = nFrames + 1
    /\ IF b = 0 \/ FromBuffer(b) < 0
       THEN RegFinally /\ UNCHANGED <<reg_buffer, cur, manager, speaker_files>>
       ELSE LET buffered == reg_buffer + FromBuffer(b)
                enough   == EnoughAudio(buffered, RegMinDuration)
                dim      == ManagerDim(speaker_model)
                e        == <<dim, 1>>
                f        == FileOfEmbedding(e)
                success  == ready /\ Reports("stream", saveOk) = "success"
            IN /\ reg_buffer' = buffered
               /\ hpc' = "send"
               /\ manager' = IF enough /\ ready
                             THEN ManagerAdd(manager, name, e, dim) ELSE manager
               /\ speaker_files' =
                     IF enough /\ ready /\ saveOk
                     THEN [speaker_files EXCEPT
                              ![f] = Written(speaker_files[f], name, e)]
                     ELSE speaker_files
               /\ cur' = IF enough
                         THEN [obj |-> "status",
                               status |-> IF success THEN "success" ELSE "error",
                               name |-> name,
                               embeddings |-> IF success THEN e ELSE NoEmbedding]
                         ELSE [obj |-> "status", status |-> "recording"]
               /\ mon' = [mon EXCEPT
                            !.registers = IF enough THEN Count(@) ELSE @,
                            !.earlyRegister = @ \/ (enough /\ buffered < 5 * samplerate),
                            !.outOfOrder = @ \/ mon.registers > 0]
               /\ UNCHANGED <<transport, is_closed, outbuf, closeCalls>>
    /\ UNCHANGED <<kind, interrupt, split, tts_stream, nStreams, recvPc, writes,
                   sendPc, rself, speaker_stream, inbuf, audio_buffer, runPc,
                   identification_threshold>>
    /\ UNCHANGED <<cacheVars, enroll, writer, reg, fnVars>>

\* line 893: receive_bytes on a closed transport raises WebSocketDisconnect
RegRecvDisconnect ==
    /\ kind = "speaker_register" /\ hpc = "receive" /\ transport = "disconnected"
    /\ RegFinally
    /\ UNCHANGED <<kind, interrupt, split, tts_stream, nStreams, recvPc, nFrames,
                   writes, sendPc, rself, cur, spkVars>>
    /\ UNCHANGED <<cacheVars, regVars, fnVars>>

\* what the send of message msg adds to the history; sent says it reached the peer
ObserveSend(m, msg, sent) ==
    [m EXCEPT !.terminals = IF sent /\ msg.status # "recording" THEN Count(@) ELSE @,
              !.termFailed = @ \/ (~sent /\ msg.status # "recording"),
              !.outOfOrder = @ \/ (sent /\ (msg.status = "recording") = (m.registers > 0))]

\* lines 915-939: send_json returns or raises; a terminal message breaks the loop
RegSend ==
    /\ kind = "speaker_register" /\ hpc = "send"
    /\ cur' = None
    /\ IF transport = "open" /\ ~Breaks(cur.status)
       THEN /\ hpc' = "receive"
            /\ mon' = ObserveSend(mon, cur, TRUE)
            /\ UNCHANGED <<transport, is_closed, outbuf, closeCalls>>
       ELSE /\ hpc' = "finished"
            /\ transport' = "disconnected"
            /\ is_closed' = CloseFlag(is_closed, speaker_stream)
            /\ outbuf' = ApplyPuts(outbuf, ClosePut(speaker_stream))
            /\ mon' = Observe(ObserveSend(mon, cur, transport = "open"),
                              ClosePut(speaker_stream))
            /\ closeCalls' = [closeCalls EXCEPT ![speaker_stream] = @ + 1]
    /\ UNCHANGED <<kind, interrupt, split, tts_stream, nStreams, recvPc, nFrames,
                   writes, sendPc, rself, spkVars>>
    /\ UNCHANGED <<cacheVars, regVars, fnVars>>

\* websocket_speaker_register after start_speaker_stream (line 881)
SpkRegInit ==
    /\ kind = "speaker_register"
    /\ interrupt = FALSE /\ split = FALSE
    /\ transport = "open" /\ hpc = "receive"
    /\ tts_stream = 0 /\ nStreams = 1
    /\ is_closed = [s \in Streams |-> FALSE]
    /\ outbuf = [s \in Streams |-> <<>>]
    /\ closeCalls = [s \in Streams |-> 0]
    /\ recvPc = "none" /\ nFrames = 0
    /\ writes = [w \in Frames |-> NoWrite]
    /\ sendPc = "none" /\ rself = 0 /\ cur = None
    /\ mon = NoHistory
    /\ speaker_stream = 1 /\ inbuf = <<>> /\ audio_buffer = 0
    /\ runPc = "get" /\ reg_buffer = 0
    /\ identification_threshold \in
           { StreamThreshold("nemo-speakernet", th) : th \in Thresholds }

RegStep ==
    \/ \E b \in RegFrames, name \in Names, ready \in BOOLEAN, saveOk \in BOOLEAN :
          RegRecv(b, name, ready, saveOk)
    \/ RegRecvDisconnect
    \/ RegSend

\* ----------------------------------------------- ASRStream (voiceapi/asr.py)
\* the one stream object websocket_asr creates (line 801)
asr_stream == 1

\* fragments the recognizer has ready after one chunk
ReadyResults == {0, 1}

ASRResult(n) == [obj |-> "ASRResult", text |-> "fragment", n |-> n]

\* close() that pushes a sentinel on every call
AsrClosePut_Always(closed, s) == ClosePut(s)

\* close(): sets the flag and pushes the sentinel; a second call does nothing
AsrClosePut(closed, s) == IF closed THEN <<>> ELSE ClosePut(s)

\* the processing loop: dequeue a chunk, feed the recognizer, drain what is
\* ready into the output queue, then wait for the next chunk
AsrRunIter(n) ==
    /\ kind = "asr"
    /\ \/ runPc = "get" /\ inbuf # <<>>
       \/ runPc = "busy"
    /\ LET puts == IF n = 0 THEN <<>> ELSE << <<asr_stream, ASRResult(n)>> >>
       IN /\ inbuf' = Tail(inbuf)
          /\ outbuf' = ApplyPuts(outbuf, puts)
          /\ mon' = Observe(mon, puts)
          /\ runPc' = IF is_closed[asr_stream] THEN "done"
                      ELSE IF Tail(inbuf) # <<>> THEN "busy" ELSE "get"
    /\ UNCHANGED <<kind, interrupt, split, transport, hpc, tts_stream, nStreams,
                   is_closed, closeCalls, recvPc, nFrames, writes, sendPc, rself,
                   cur, speaker_stream, audio_buffer, reg_buffer,
                   identification_threshold>>
    /\ UNCHANGED <<cacheVars, regVars, fnVars>>

\* ------------------------------------------- websocket_asr (app.py 776-831)
\* task_recv_pcm, lines 810-817, with ASRStream.write: a chunk that does not
\* decode is dropped
AsrRecv(b) ==
    /\ kind = "asr" /\ recvPc = "receive" /\ transport = "open"
    /\ runPc # "busy"
    /\ nFrames < MaxFrames
    /\ nFrames' = nFrames + 1
    /\ IF b = 0 THEN recvPc' = "done" /\ inbuf' = inbuf
       ELSE IF FromBuffer(b) < 0 THEN recvPc' = "receive" /\ inbuf' = inbuf
       ELSE recvPc' = "receive" /\ inbuf' = Append(inbuf, FromBuffer(b))
    /\ UNCHANGED <<kind, interrupt, split, transport, hpc, tts_stream, nStreams,
                   is_closed, outbuf, closeCalls, writes, sendPc, rself, cur, mon,
                   speaker_stream, audio_buffer, runPc, reg_buffer,
                   identification_threshold>>
    /\ UNCHANGED <<cacheVars, regVars, fnVars>>

\* receive_bytes on a closed transport raises WebSocketDisconnect (line 811)
AsrRecvDisconnect ==
    /\ kind = "asr" /\ recvPc = "receive" /\ transport = "disconnected"
    /\ runPc # "busy"
    /\ recvPc' = "raised"
    /\ UNCHANGED <<kind, interrupt, split, transport, hpc, tts_stream, nStreams,
                   is_closed, outbuf, closeCalls, nFrames, writes, sendPc, rself,
                   cur, mon, spkVars>>
    /\ UNCHANGED <<cacheVars, regVars, fnVars>>

\* task_send_result, lines 820-823: read() returns
AsrSendWake ==
    /\ kind = "asr" /\ sendPc = "get" /\ outbuf[rself] # <<>>
    /\ runPc # "busy"
    /\ SendLoop(rself, mon)
    /\ UNCHANGED <<kind, interrupt, split, transport, hpc, tts_stream, nStreams,
                   is_closed, closeCalls, recvPc, nFrames, writes, spkVars>>
    /\ UNCHANGED <<cacheVars, regVars, fnVars>>

\* task_send_result, line 825: send_json completes, the loop reads again
AsrSendComplete ==
    /\ kind = "asr" /\ sendPc = "send" /\ transport = "open"
    /\ runPc # "busy"
    /\ SendLoop(asr_stream, mon)
    /\ UNCHANGED <<kind, interrupt, split, transport, hpc, tts_stream, nStreams,
                   is_closed, closeCalls, recvPc, nFrames, writes, spkVars>>
    /\ UNCHANGED <<cacheVars, regVars, fnVars>>

\* task_send_result, line 825: send_json on a closed transport raises
AsrSendFail ==
    /\ kind = "asr" /\ sendPc = "send" /\ transport = "disconnected"
    /\ runPc # "busy"
    /\ sendPc' = "raised" /\ cur' = None
    /\ UNCHANGED <<kind, interrupt, split, transport, hpc, tts_stream, nStreams,
                   is_closed, outbuf, closeCalls, recvPc, nFrames, writes, rself,
                   mon, spkVars>>
    /\ UNCHANGED <<cacheVars, regVars, fnVars>>

\* lines 826-831: except / finally, then the server closes the connection
AsrFinally ==
    /\ kind = "asr" /\ hpc = "gather" /\ GatherOver
    /\ runPc # "busy"
    /\ hpc' = "finished"
    /\ transport' = "disconnected"
    /\ is_closed' = CloseFlag(is_closed, asr_stream)
    /\ outbuf' = ApplyPuts(outbuf, AsrClosePut(is_closed[asr_stream], asr_stream))
    /\ mon' = Observe(mon, AsrClosePut(is_closed[asr_stream], asr_stream))
    /\ closeCalls' = [closeCalls EXCEPT ![asr_stream] = @ + 1]
    /\ UNCHANGED <<kind, interrupt, split, tts_stream, nStreams, recvPc,
                   nFrames, writes, sendPc, rself, cur, spkVars>>
    /\ UNCHANGED <<cacheVars, regVars, fnVars>>

\* websocket_asr after start_asr_stream (line 801): the processing loop and
\* the reading pump are suspended in get(), the writing pump in receive
AsrInit ==
    /\ kind = "asr"
    /\ interrupt = FALSE /\ split = FALSE
    /\ transport = "open" /\ hpc = "gather"
    /\ tts_stream = 0 /\ nStreams = 1
    /\ is_closed = [s \in Streams |-> FALSE]
    /\ outbuf = [s \in Streams |-> <<>>]
    /\ closeCalls = [s \in Streams |-> 0]
    /\ recvPc = "receive" /\ nFrames = 0
    /\ writes = [w \in Frames |-> NoWrite]
    /\ sendPc = "get" /\ rself = 1 /\ cur = None
    /\ mon = NoHistory
    /\ speaker_stream = 0 /\ inbuf = <<>> /\ audio_buffer = 0
    /\ runPc = "get" /\ reg_buffer = 0
    /\ identification_threshold = 0

AsrStep ==
    \/ \E b \in PcmFrames : AsrRecv(b)
    \/ AsrRecvDisconnect
    \/ \E n \in ReadyResults : AsrRunIter(n)
    \/ AsrSendWake
    \/ AsrSendComplete
    \/ AsrSendFail
    \/ AsrFinally

\* ------------------------------ the ASR stream driven through its interface
MaxCloses == 2      \* calls of close() on the one stream

\* write(pcm_bytes) on an open stream: decode and enqueue
AsrWrite(b) ==
    /\ kind = "asr" /\ ~is_closed[asr_stream]
    /\ runPc # "busy"
    /\ nFrames < MaxFrames /\ b # 0
    /\ nFrames' = nFrames + 1
    /\ inbuf' = IF FromBuffer(b) < 0 THEN inbuf ELSE Append(inbuf, FromBuffer(b))
    /\ UNCHANGED <<kind, interrupt, split, transport, hpc, tts_stream, nStreams,
                   is_closed, outbuf, closeCalls, recvPc, writes, sendPc, rself,
                   cur, mon, speaker_stream, audio_buffer, runPc, reg_buffer,
                   identification_threshold>>
    /\ UNCHANGED <<cacheVars, regVars, fnVars>>

\* close()
AsrClose ==
    /\ kind = "asr" /\ closeCalls[asr_stream] < MaxCloses
    /\ runPc # "busy"
    /\ is_closed' = CloseFlag(is_closed, asr_stream)
    /\ outbuf' = ApplyPuts(outbuf, AsrClosePut(is_closed[asr_stream], asr_stream))
    /\ mon' = Observe(mon, AsrClosePut(is_closed[asr_stream], asr_stream))
    /\ closeCalls' = [closeCalls EXCEPT ![asr_stream] = @ + 1]
    /\ UNCHANGED <<kind, interrupt, split, transport, hpc, tts_stream, nStreams,
                   recvPc, nFrames, writes, sendPc, rself, cur, spkVars>>
    /\ UNCHANGED <<cacheVars, regVars, fnVars>>

\* read() by the one reader, which keeps reading whatever is queued
AsrRead ==
    /\ kind = "asr" /\ outbuf[asr_stream] # <<>>
    /\ runPc # "busy"
    /\ outbuf' = [outbuf EXCEPT ![asr_stream] = Tail(@)]
    /\ cur' = Head(outbuf[asr_stream])
    /\ mon' = IF IsNone(Head(outbuf[asr_stream]))
              THEN [mon EXCEPT !.endsRead[asr_stream] = @ + 1] ELSE mon
    /\ UNCHANGED <<kind, interrupt, split, transport, hpc, tts_stream, nStreams,
                   is_closed, closeCalls, recvPc, nFrames, writes, sendPc, rself,
                   spkVars>>
    /\ UNCHANGED <<cacheVars, regVars, fnVars>>

AsrStreamNext ==
    \/ \E b \in PcmFrames : AsrWrite(b)
    \/ \E n \in ReadyResults : AsrRunIter(n)
    \/ AsrClose
    \/ AsrRead

\* ------------------- SpeakerStream driven through its interface (28-100)
\* write, lines 94-97: decode and enqueue, whatever is_closed says
SpkWrite(b) ==
    /\ kind = "speaker_id" /\ runPc # "busy"
    /\ nFrames < MaxFrames /\ b # 0
    /\ nFrames' = nFrames + 1
    /\ inbuf' = IF FromBuffer(b) < 0 THEN inbuf ELSE Append(inbuf, FromBuffer(b))
    /\ UNCHANGED <<kind, interrupt, split, transport, hpc, tts_stream, nStreams,
                   is_closed, outbuf, closeCalls, recvPc, writes, sendPc, rself,
                   cur, mon, speaker_stream, audio_buffer, runPc, reg_buffer,
                   identification_threshold>>
    /\ UNCHANGED <<cacheVars, regVars, fnVars>>

\* close, lines 90-92
SpkClose ==
    /\ kind = "speaker_id" /\ runPc # "busy"
    /\ closeCalls[speaker_stream] < MaxCloses
    /\ is_closed' = CloseFlag(is_closed, speaker_stream)
    /\ outbuf' = ApplyPuts(outbuf, ClosePut(speaker_stream))
    /\ mon' = Observe(mon, ClosePut(speaker_stream))
    /\ closeCalls' = [closeCalls EXCEPT ![speaker_stream] = @ + 1]
    /\ UNCHANGED <<kind, interrupt, split, transport, hpc, tts_stream, nStreams,
                   recvPc, nFrames, writes, sendPc, rself, cur, spkVars>>
    /\ UNCHANGED <<cacheVars, regVars, fnVars>>

\* read, lines 99-100, by a reader that takes whatever is queued
SpkRead ==
    /\ kind = "speaker_id" /\ runPc # "busy"
    /\ outbuf[speaker_stream] # <<>>
    /\ outbuf' = [outbuf EXCEPT ![speaker_stream] = Tail(@)]
    /\ cur' = Head(outbuf[speaker_stream])
    /\ mon' = IF IsNone(Head(outbuf[speaker_stream]))
              THEN [mon EXCEPT !.endsRead[speaker_stream] = @ + 1] ELSE mon
    /\ UNCHANGED <<kind, interrupt, split, transport, hpc, tts_stream, nStreams,
                   is_closed, closeCalls, recvPc, nFrames, writes, sendPc, rself,
                   spkVars>>
    /\ UNCHANGED <<cacheVars, regVars, fnVars>>

SpkStreamNext ==
    \/ \E b \in PcmFrames : SpkWrite(b)
    \/ \E ready \in BOOLEAN, found \in SearchResults : RunIter(ready, found)
    \/ SpkClose
    \/ SpkRead

\* ----------------- TTSStream.write on a stream of its own (tts.py 236-286)
MaxText == 4        \* characters of the text of one write

\* texts of up to n characters: a letter, a delimiter, a blank
RECURSIVE TextsUpTo(_)
TextsUpTo(n) ==
    IF n = 0 THEN { <<>> }
    ELSE LET shorter == TextsUpTo(n - 1)
         IN shorter \cup { Append(t, c) : t \in { u \in shorter : Len(u) = n - 1 },
                                          c \in {"a", ".", " "} }

WriteTexts == TextsUpTo(MaxText)

\* audio.sample_rate of the engine, and len(audio.samples) of one segment
Rates == {5, 10}
AudioLens == {1, 3}

\* int(audio.sample_rate * pause) with pause = 0.2
PauseSamples(rate) == (rate * 2) \div 10

\* a summary that carries a payload
Summary_WithPcm(audio_duration, audio_size) ==
    [obj |-> "TTSResult", pcm_bytes |-> "pcm", finished |-> TRUE,
     progress |-> 1, audio_duration |-> audio_duration, audio_size |-> 0]

\* write, lines 281-285: r = TTSResult(None, True) with elapsed,
\* audio_duration, progress and finished assigned; r.audio_size keeps the 0
\* of TTSResult.__init__ (line 190), the local audio_size is not stored
Summary(audio_duration, audio_size) ==
    [obj |-> "TTSResult", pcm_bytes |-> "None", finished |-> TRUE,
     progress |-> 1, audio_duration |-> audio_duration, audio_size |-> 0]

\* a loop that gives up the text at the first segment the engine fails on
AfterFailed_Abort(idx, texts) == Len(texts) + 1

\* write, lines 260-263: `continue` goes on with the next index
AfterFailed(idx, texts) == idx + 1

\* no write of this kind; audio_duration is in samples (seconds * rate)
NoJob == [pc |-> "none", text |-> <<>>, split |-> FALSE, texts |-> <<>>,
          idx |-> 0, n |-> 0, rate |-> 0, audio_duration |-> 0,
          audio_size |-> 0, calls |-> <<>>, audios |-> <<>>, out |-> <<>>]

\* write, lines 237-244, called with text and split on a stream whose engine
\* has the given rate
JobStart(text, sp, rate) ==
    [NoJob EXCEPT !.pc = "loop", !.text = text, !.split = sp,
                  !.texts = SplitTexts(text, sp), !.idx = 1, !.rate = rate]

\* write, lines 246-256 and 281-286: the for loop up to the to_thread call of
\* the next non-empty segment, or to the summary; calls lists the indices
\* handed to the engine
JobLoop ==
    /\ wjob.pc = "loop"
    /\ LET j == NextSeg(wjob.texts, wjob.idx)
       IN wjob' = IF j = 0
                  THEN [wjob EXCEPT !.pc = "done",
                                    !.out = Append(@, Summary(wjob.audio_duration,
                                                              wjob.audio_size))]
                  ELSE [wjob EXCEPT !.pc = "to_thread", !.idx = j, !.n = 0,
                                    !.calls = Append(@, j)]
    /\ UNCHANGED <<connVars, spkVars, cacheVars, regVars, exceptWjob>>

\* on_process, lines 218-234, called by the engine on the worker thread
JobChunk ==
    /\ wjob.pc = "to_thread" /\ wjob.n < MaxChunks
    /\ wjob' = [wjob EXCEPT !.n = @ + 1,
                            !.out = Append(@, TTSResult("pcm", FALSE, 1, wjob.idx))]
    /\ UNCHANGED <<connVars, spkVars, cacheVars, regVars, exceptWjob>>

\* write, lines 255-271: engine.generate returns or raises; len is
\* len(audio.samples); audios lists what the engine returned
JobReturn(outcome, len) ==
    /\ wjob.pc = "to_thread"
    /\ LET pause == AddsPause(wjob.split, wjob.texts, wjob.idx)
           gap   == IF pause THEN OnProcessInline(FALSE, 1, 1, wjob.idx) ELSE <<>>
           total == len + IF pause THEN PauseSamples(wjob.rate) ELSE 0
           heard == Append(wjob.audios, <<wjob.idx, outcome, len>>)
       IN wjob' =
            IF outcome = "raise"
            THEN [wjob EXCEPT !.pc = "raised", !.audios = heard]
            ELSE IF outcome = "empty"
            THEN [wjob EXCEPT !.pc = "loop", !.audios = heard,
                              !.idx = AfterFailed(wjob.idx, wjob.texts)]
            ELSE [wjob EXCEPT !.pc = "loop", !.audios = heard,
                              !.idx = @ + 1,
                              !.out = @ \o [k \in 1..Len(gap) |-> gap[k][2]],
                              !.audio_duration = @ + total,
                              !.audio_size = @ + total]
    /\ UNCHANGED <<connVars, spkVars, cacheVars, regVars, exceptWjob>>

\* ---------------------------------------------------- PCM conversions
MaxSamples == 4     \* samples of one chunk
Den == 50000        \* a float sample x is held as the integer x * Den
FullScale == 32768
Int16Min == -32768
Int16Max == 32767

\* samples below, at and beyond full scale, and a fraction of one step
Samples ==
    {-((5 * Den) \div 4), -(Den + 1), -Den, -(Den - 1), -1, 0,
     1, Den - 1, Den, Den + 1, (5 * Den) \div 4}

SampleRates == {8000, 16000, 22050}

\* what a float to int16 cast gives for a value outside the int16 range
CastOutcomes == {"wrap", "saturate"}

TruncDiv(a, b) == IF a >= 0 THEN a \div b ELSE -((-a) \div b)

\* tts.py line 229, app.py line 730: chunk * 32768 (held over Den)
Scale(x) == x * FullScale

\* tts.py line 230: np.clip(scaled_chunk, -32768, 32767)
Clip(v) ==
    IF v < Int16Min * Den THEN Int16Min * Den
    ELSE IF v > Int16Max * Den THEN Int16Max * Den
    ELSE v

Wrap16(i) == ((i - Int16Min) % (2 * FullScale)) + Int16Min

Saturate16(i) == IF i < Int16Min THEN Int16Min ELSE IF i > Int16Max THEN Int16Max ELSE i

\* .astype(np.int16): truncation toward zero; outside the int16 range the
\* cast is undefined and the build decides
AsType(v, cast) ==
    LET i == TruncDiv(v, Den)
    IN IF i \in Int16Min..Int16Max THEN i
       ELSE IF cast = "wrap" THEN Wrap16(i) ELSE Saturate16(i)

\* tts.py lines 229-231
EncodeChunkValue(x, cast) == AsType(Clip(Scale(x)), cast)

\* app.py line 730
EncodeResponseValue(x, cast) == AsType(Scale(x), cast)

\* tts.py lines 223-226 and 307-309: int(len * target / native) for unequal
\* rates, no resampling for equal ones
ResampledLen(n, target, native) ==
    IF target # native THEN (n * target) \div native ELSE n

\* n * target / native rounded to the nearest integer, halves to even
Round(a, b) ==
    LET q == a \div b
        r == a % b
    IN IF 2 * r < b THEN q
       ELSE IF 2 * r > b THEN q + 1
       ELSE IF q % 2 = 0 THEN q ELSE q + 1

Paths == {"on_process", "generate", "generate_speech"}

NoConv ==
    [pc |-> "none", path |-> "none", sample |-> 0, n |-> 0, target |-> 0,
     native |-> 0, len |-> 0, pcm |-> 0]

ConvStart(path, x, n, target, native) ==
    [NoConv EXCEPT !.pc = "start", !.path = path, !.sample = x, !.n = n,
                   !.target = target, !.native = native]

\* on_process lines 222-227, generate lines 307-310
Resample ==
    /\ conv.pc = "start" /\ conv.path \in {"on_process", "generate"}
    /\ conv' = [conv EXCEPT
                  !.len = ResampledLen(conv.n, conv.target, conv.native),
                  !.pc = IF conv.path = "on_process" THEN "resampled" ELSE "done"]
    /\ UNCHANGED <<connVars, spkVars, cacheVars, regVars, exceptConv>>

\* on_process lines 229-232
EncodeChunk(cast) ==
    /\ conv.pc = "resampled"
    /\ conv' = [conv EXCEPT !.pcm = EncodeChunkValue(conv.sample, cast),
                            !.pc = "done"]
    /\ UNCHANGED <<connVars, spkVars, cacheVars, regVars, exceptConv>>

\* generate_speech lines 730-731
EncodeResponse(cast) ==
    /\ conv.pc = "start" /\ conv.path = "generate_speech"
    /\ conv' = [conv EXCEPT !.pcm = EncodeResponseValue(conv.sample, cast),
                            !.len = conv.n, !.pc = "done"]
    /\ UNCHANGED <<connVars, spkVars, cacheVars, regVars, exceptConv>>

\* ------------------------------ engine caches (tts.py 17, speaker_id.py 11)
MaxCallers == 2     \* coroutines that request engines
MaxCalls == 3       \* engine requests made in one process

Callers == 1..MaxCallers

Fns == {"get_tts_engine", "load_speaker_engine"}

\* values of --tts-model and --speaker-model; "unlisted" is a name the code
\* does not know
TtsModels == {"kokoro-multi-lang-v1_0", "unlisted"}
SpeakerModels == {"nemo-speakernet", "3dspeaker", "unlisted"}

\* tts_configs has the key (tts.py 80-106); load_speaker_engine has a branch
\* for the name (speaker_id.py 294-301)
Known(fn, m) ==
    IF fn = "get_tts_engine" THEN m = "kokoro-multi-lang-v1_0"
    ELSE m \in {"nemo-speakernet", "3dspeaker"}

\* a handle is the tuple of the ids of its objects: <<engine>> for TTS,
\* <<extractor, manager>> for speaker identification; <<>> is no entry
NoEngine == <<>>

\* `if cache_engine:`
Truthy(h) == h # <<>>

\* _tts_engines.get(args.tts_model) / _speaker_engines.get(cache_key)
Entry(fn) ==
    IF fn = "get_tts_engine" THEN tts_engines[tts_model]
    ELSE speaker_engines[speaker_model]

\* sherpa_onnx.OfflineTts(tts_config) / create_*(samplerate, args): new objects
NewHandle(fn, n) == IF fn = "get_tts_engine" THEN <<n + 1>> ELSE <<n + 1, n + 2>>

\* a request that gives the event loop away before it constructs
Suspends_BeforeConstruct(step) == step = "construct"

\* a failed construction that leaves a marker in the cache
ConstructFails_Cached(entry) == <<0>>

\* get_tts_engine and load_speaker_engine are plain functions: no step of a
\* request gives the event loop to another coroutine
Suspends(step) == FALSE

\* the entry after load_tts_model / OfflineTts / create_* raised: the
\* assignment to the cache (tts.py 180, speaker_id.py 304) is not reached
ConstructFails(entry) == entry

NoCall == [pc |-> "idle", fn |-> "none", st |-> "none", h |-> NoEngine]

\* history of the constructors:
\*   built[fn]      constructions that succeeded (counted up to 2)
\*   failed[fn]     constructions that raised (counted up to 2)
\*   raisedTo[fn]   requests that ended with the exception (counted up to 2)
\*   afterBuilt[fn] the constructor was invoked after it had succeeded once
\*   made[fn]       the handles the constructor returned
\*   handed[fn]     the handles returned to requests of connection handlers
NoCtor ==
    [built      |-> [fn \in Fns |-> 0],
     failed     |-> [fn \in Fns |-> 0],
     raisedTo   |-> [fn \in Fns |-> 0],
     afterBuilt |-> [fn \in Fns |-> FALSE],
     made       |-> [fn \in Fns |-> {}],
     handed     |-> [fn \in Fns |-> {}]]

SetEntry(fn, h) ==
    /\ tts_engines' = IF fn = "get_tts_engine"
                      THEN [tts_engines EXCEPT ![tts_model] = h] ELSE tts_engines
    /\ speaker_engines' = IF fn = "load_speaker_engine"
                          THEN [speaker_engines EXCEPT ![speaker_model] = h]
                          ELSE speaker_engines

\* the request returns handle h to caller c
Returns(c, fn, h, log) ==
    /\ call' = [call EXCEPT ![c] = [pc |-> "idle", fn |-> fn, st |-> "ok", h |-> h]]
    /\ ctor' = IF phase = "serving"
               THEN [log EXCEPT !.handed[fn] = @ \cup {h}] ELSE log

\* the request ends with an exception in caller c
Raises(c, fn, log) ==
    /\ call' = [call EXCEPT ![c] = [pc |-> "idle", fn |-> fn, st |-> "raised",
                                    h |-> NoEngine]]
    /\ ctor' = [log EXCEPT !.raisedTo[fn] = Count(@)]

\* get_tts_engine, lines 169-172 / load_speaker_engine, lines 286-291: the
\* lookup; a hit returns the cached handle
Request(c, fn) ==
    /\ call[c].pc = "idle" /\ running = 0
    /\ nCalls < MaxCalls
    /\ nCalls' = nCalls + 1
    /\ IF fn = "get_tts_engine" /\ ~Known(fn, tts_model)
       THEN Raises(c, fn, ctor) /\ running' = 0
       ELSE IF Truthy(Entry(fn))
       THEN Returns(c, fn, Entry(fn), ctor) /\ running' = 0
       ELSE /\ call' = [call EXCEPT ![c] = [pc |-> "construct", fn |-> fn,
                                            st |-> "none", h |-> NoEngine]]
            /\ running' = IF Suspends("construct") THEN 0 ELSE c
            /\ ctor' = ctor
    /\ UNCHANGED <<tts_model, speaker_model, tts_engines, speaker_engines, phase,
                   nObjs>>
    /\ UNCHANGED <<connVars, spkVars, regVars, fnVars>>

\* get_tts_engine, lines 173-182 / load_speaker_engine, lines 293-306: the
\* construction, the store and the return; loads says whether the model loads
Construct(c, loads) ==
    /\ call[c].pc = "construct" /\ running \in {0, c}
    /\ running' = 0
    /\ LET fn  == call[c].fn
           m   == IF fn = "get_tts_engine" THEN tts_model ELSE speaker_model
           h   == NewHandle(fn, nObjs)
           log == [ctor EXCEPT !.afterBuilt[fn] = @ \/ ctor.built[fn] > 0]
       IN IF loads /\ Known(fn, m)
          THEN /\ SetEntry(fn, h)
               /\ nObjs' = nObjs + Len(h)
               /\ Returns(c, fn, h, [log EXCEPT !.built[fn] = Count(@),
                                                !.made[fn] = @ \cup {h}])
          ELSE /\ SetEntry(fn, ConstructFails(Entry(fn)))
               /\ nObjs' = nObjs
               /\ Raises(c, fn, [log EXCEPT !.failed[fn] = Count(@)])
    /\ UNCHANGED <<tts_model, speaker_model, phase, nCalls>>
    /\ UNCHANGED <<connVars, spkVars, regVars, fnVars>>

\* reload_speakers_into_engine, lines 186-196: the cached pair is replaced by
\* the same extractor with a new manager
Reloaded(h, n) == <<h[1], n + 1>>

\* load_known_speakers (app.py 82-161), the last startup hook: with valid
\* known speakers it reloads them into a cached speaker engine; then the
\* server accepts connections
LoadKnownSpeakers(found) ==
    /\ phase = "startup" /\ running = 0
    /\ found => Truthy(speaker_engines[speaker_model])
    /\ phase' = "serving"
    /\ IF found
       THEN /\ speaker_engines' =
                 [speaker_engines EXCEPT ![speaker_model] = Reloaded(@, nObjs)]
            /\ nObjs' = nObjs + 1
       ELSE UNCHANGED <<speaker_engines, nObjs>>
    /\ UNCHANGED <<tts_model, speaker_model, tts_engines, call, running, nCalls,
                   ctor>>
    /\ UNCHANGED <<connVars, spkVars, regVars, fnVars>>

\* the caches at import, before any request
CachesEmpty ==
    /\ tts_model \in TtsModels /\ speaker_model \in SpeakerModels
    /\ tts_engines = [m \in TtsModels |-> NoEngine]
    /\ speaker_engines = [m \in SpeakerModels |-> NoEngine]
    /\ phase = "startup"
    /\ call = [c \in Callers |-> NoCall]
    /\ running = 0 /\ nObjs = 0 /\ nCalls = 0
    /\ ctor = NoCtor

\* the caches as a connection finds them: loaded by initialize_models
CacheLoaded ==
    /\ tts_model = "kokoro-multi-lang-v1_0" /\ speaker_model = "nemo-speakernet"
    /\ tts_engines = [m \in TtsModels |-> IF m = tts_model THEN <<1>> ELSE NoEngine]
    /\ speaker_engines = [m \in SpeakerModels |->
                             IF m = speaker_model THEN <<2, 3>> ELSE NoEngine]
    /\ phase = "serving"
    /\ call = [c \in Callers |-> NoCall]
    /\ running = 0 /\ nObjs = 3 /\ nCalls = 0
    /\ ctor = NoCtor

\* no connection
NoConnection ==
    /\ kind = "none"
    /\ interrupt = FALSE /\ split = FALSE
    /\ transport = "disconnected" /\ hpc = "finished"
    /\ tts_stream = 0 /\ nStreams = 0
    /\ is_closed = [s \in Streams |-> FALSE]
    /\ outbuf = [s \in Streams |-> <<>>]
    /\ closeCalls = [s \in Streams |-> 0]
    /\ recvPc = "none" /\ nFrames = 0
    /\ writes = [w \in Frames |-> NoWrite]
    /\ sendPc = "none" /\ rself = 0 /\ cur = None
    /\ mon = NoHistory
    /\ speaker_stream = 0 /\ inbuf = <<>> /\ audio_buffer = 0
    /\ runPc = "none" /\ reg_buffer = 0
    /\ identification_threshold = 0

CacheNext ==
    \/ \E c \in Callers, fn \in Fns : Request(c, fn)
    \/ \E c \in Callers, loads \in BOOLEAN : Construct(c, loads)
    \/ \E found \in BOOLEAN : LoadKnownSpeakers(found)

\* no write on a stream of its own and no chunk to convert
\* ---------------------- websocket_tts.task_send_pcm, frame by frame (994-1009)
MaxPayload == 4     \* bytes of one non-final result
MaxChunkSize == 3   \* the chunk_size query parameter
MaxResults == 2     \* results the stream hands to the pump before its sentinel

PumpChunk(n) == [finished |-> FALSE, pcm_bytes |-> [k \in 1..n |-> k]]
PumpFinal == [finished |-> TRUE, pcm_bytes |-> <<>>]
PumpResults == { PumpChunk(n) : n \in 0..MaxPayload } \cup {PumpFinal}

RECURSIVE QueuesUpTo(_)
QueuesUpTo(n) ==
    IF n = 0 THEN {<<>>}
    ELSE LET shorter == QueuesUpTo(n - 1)
         IN shorter \cup { Append(q, r) : q \in { x \in shorter : Len(x) = n - 1 },
                                          r \in PumpResults }

\* a loop that steps one byte too far
NextOffset_Skip(i, chunk_size) == i + chunk_size + 1

\* line 1008: range(0, len(result.pcm_bytes), chunk_size)
NextOffset(i, chunk_size) == i + chunk_size

\* line 1009: result.pcm_bytes[i:i+chunk_size]
Slice(bytes, i, j) ==
    SubSeq(bytes, i + 1, IF j < Len(bytes) THEN j ELSE Len(bytes))

NoPump ==
    [pc |-> "none", chunk_size |-> 0, all |-> <<>>, queue |-> <<>>, r |-> 0,
     i |-> 0, sent |-> <<>>]

PumpStart(q, chunk_size) ==
    [NoPump EXCEPT !.pc = "read", !.chunk_size = chunk_size, !.all = q, !.queue = q]

\* lines 1000-1003, 1005, 1008: read() returns the sentinel, a final result
\* or a chunk; a chunk without bytes is sent as no frame at all
PumpRead ==
    /\ pump.pc = "read"
    /\ pump' =
         IF pump.queue = <<>> THEN [pump EXCEPT !.pc = "done"]
         ELSE [pump EXCEPT
                 !.queue = Tail(@), !.r = @ + 1, !.i = 0,
                 !.pc = IF Head(pump.queue).finished THEN "json"
                        ELSE IF 0 < Len(Head(pump.queue).pcm_bytes) THEN "frames"
                        ELSE "read"]
    /\ UNCHANGED <<connVars, spkVars, cacheVars, regVars, exceptPump>>

\* lines 1008-1009: one send_bytes of the for loop
PumpFrame ==
    /\ pump.pc = "frames"
    /\ LET bytes == pump.all[pump.r].pcm_bytes
           next  == NextOffset(pump.i, pump.chunk_size)
       IN pump' = [pump EXCEPT
                     !.sent = Append(@, [kind |-> "bytes", r |-> pump.r,
                                         data |-> Slice(bytes, pump.i, pump.i + pump.chunk_size)]),
                     !.i = next,
                     !.pc = IF next < Len(bytes) THEN "frames" ELSE "read"]
    /\ UNCHANGED <<connVars, spkVars, cacheVars, regVars, exceptPump>>

\* lines 1005-1006: send_json(result.to_dict())
PumpJson ==
    /\ pump.pc = "json"
    /\ pump' = [pump EXCEPT
                  !.sent = Append(@, [kind |-> "json", r |-> pump.r, data |-> <<>>]),
                  !.pc = "read"]
    /\ UNCHANGED <<connVars, spkVars, cacheVars, regVars, exceptPump>>

\* a send on a transport the peer has left raises
PumpRaise ==
    /\ pump.pc \in {"frames", "json"}
    /\ pump' = [pump EXCEPT !.pc = "raised"]
    /\ UNCHANGED <<connVars, spkVars, cacheVars, regVars, exceptPump>>
\* ------------- XUrlProcessorService (legacy-services/x-url-processor/app)
MaxTasks == 3       \* rows of one batch of get_pending_urls

\* the url of a row: missing, of another site, of x.com / twitter.com
Urls == {"none", "other", "x"}

ScrapeOutcomes == {"data", "nodata", "raise"}

RECURSIVE BatchesUpTo(_)
BatchesUpTo(n) ==
    IF n = 0 THEN {<<>>}
    ELSE LET shorter == BatchesUpTo(n - 1)
         IN shorter \cup { Append(q, u) : q \in { x \in shorter : Len(x) = n - 1 },
                                          u \in Urls }

\* main.py lines 21-24: __init__ sets db_poller and tweet_processor only, so
\* self.kafka_producer (line 92) raises AttributeError
HasProducer == FALSE

\* main.py lines 41-51: `if not url: return` and the test of the prefixes
Skips(url) == url # "x"

\* main.py lines 64-145: the mark the task ends with after the scrape
MarkAfter(outcome) ==
    IF outcome = "data" /\ HasProducer THEN "completed" ELSE "failed"

NoTask ==
    [pc |-> "none", batch |-> <<>>, k |-> 0, status |-> <<>>, retry_count |-> <<>>,
     mark |-> "none"]

TaskStart(batch) ==
    [NoTask EXCEPT !.pc = IF batch = <<>> THEN "idle" ELSE "start",
                   !.batch = batch, !.k = IF batch = <<>> THEN 0 ELSE 1,
                   !.status = [j \in DOMAIN batch |-> "pending"],
                   !.retry_count = [j \in DOMAIN batch |-> 0]]

\* process_task, lines 28-51, with mark_processing (database_poller.py
\* 92-119, dbOk says whether the UPDATE went through): the task is marked and
\* process_task returns at once for a missing or foreign url
MarkProcessing(dbOk) ==
    /\ task.pc = "start"
    /\ task' = [task EXCEPT
                  !.status[task.k] = IF dbOk THEN "processing" ELSE @,
                  !.pc = IF Skips(task.batch[task.k]) THEN "returned" ELSE "scrape"]
    /\ UNCHANGED <<connVars, spkVars, cacheVars, regVars, exceptTask>>

\* process_task, lines 58-134 and 142-143: setup, scrape_tweet, cleanup and
\* the publication, up to the mark they lead to
ScrapeTweet(outcome) ==
    /\ task.pc = "scrape"
    /\ task' = [task EXCEPT !.pc = "mark", !.mark = MarkAfter(outcome)]
    /\ UNCHANGED <<connVars, spkVars, cacheVars, regVars, exceptTask>>

\* process_task, lines 136, 140, 145, with mark_completed / mark_failed
\* (database_poller.py 121-181)
MarkDone(dbOk) ==
    /\ task.pc = "mark"
    /\ task' = [task EXCEPT
                  !.status[task.k] = IF dbOk THEN task.mark ELSE @,
                  !.retry_count[task.k] =
                      IF dbOk /\ task.mark = "failed" THEN @ + 1 ELSE @,
                  !.mark = "none",
                  !.pc = "returned"]
    /\ UNCHANGED <<connVars, spkVars, cacheVars, regVars, exceptTask>>

\* run, lines 162-163: the next task of the batch
NextTask ==
    /\ task.pc = "returned"
    /\ task' = IF task.k < Len(task.batch)
               THEN [task EXCEPT !.k = @ + 1, !.pc = "start"]
               ELSE [task EXCEPT !.pc = "idle"]
    /\ UNCHANGED <<connVars, spkVars, cacheVars, regVars, exceptTask>>
\* ---------- GeoregionDetector (legacy-services/georegion-detector-db/app)
MaxRows == 3        \* GPS readings processed

Devices == {"d1", "d2"}

\* _insert_default_georegions, lines 86-103: the default regions, on a line through both
\* centres, in metres: centre and radius_meters
Georegions ==
    [Home |-> [centre |-> 0, radius_meters |-> 100],
     Work |-> [centre |-> 1040, radius_meters |-> 200]]

RegionNames == DOMAIN Georegions

\* readings: at a centre, on and just past a boundary, inside Work, far away
Positions == {0, 100, 101, 900, 1040, 5000}

\* _calculate_distance, lines 229-248, between two points of that line
Distance(a, b) == IF a >= b THEN a - b ELSE b - a

\* lines 139-145
InRegions(pos) ==
    { r \in RegionNames : Distance(pos, Georegions[r].centre) <= Georegions[r].radius_meters }

\* the events of a set of regions, in the order the set is iterated
RECURSIVE EventsOf(_, _)
EventsOf(regions, event_type) ==
    IF regions = {} THEN <<>>
    ELSE LET r == CHOOSE x \in regions : TRUE
         IN <<[region_name |-> r, event_type |-> event_type]>>
            \o EventsOf(regions \ {r}, event_type)

\* lines 148-164: nothing is emitted for a device without a previous location
Pending(previous, current) ==
    IF previous.seen
    THEN EventsOf(current \ previous.in_regions, "enter")
         \o EventsOf(previous.in_regions \ current, "exit")
    ELSE <<>>

\* the detector (lines 33-36), with the latest event type emitted for each
\* device and region and whether the emitted events were ever ill paired
NoGeo ==
    [pc |-> "none", rows |-> 0,
     device_locations |-> [d \in Devices |-> [seen |-> FALSE, in_regions |-> {}]],
     device_id |-> "none", current |-> {}, pending |-> <<>>,
     latest |-> [d \in Devices |-> [r \in RegionNames |-> "none"]],
     unpairedExit |-> FALSE, doubleEnter |-> FALSE]

GeoStart == [NoGeo EXCEPT !.pc = "idle"]

\* line 167
Stored(g, d, current) ==
    [g EXCEPT !.device_locations[d] = [seen |-> TRUE, in_regions |-> current],
              !.pc = "idle", !.pending = <<>>]

\* process_row, lines 120-167, up to its first _emit_georegion_event, or to
\* its end when there is nothing to emit
ProcessRow(d, pos) ==
    /\ geo.pc = "idle" /\ geo.rows < MaxRows
    /\ LET current == InRegions(pos)
           events  == Pending(geo.device_locations[d], current)
           g       == [geo EXCEPT !.rows = @ + 1, !.device_id = d, !.current = current]
       IN geo' = IF events = <<>> THEN Stored(g, d, current)
                 ELSE [g EXCEPT !.pc = "emit", !.pending = events]
    /\ UNCHANGED <<connVars, spkVars, cacheVars, regVars, exceptGeo>>

\* _emit_georegion_event, lines 169-227: the INSERT goes through (ok) or
\* raises, and then process_row ends without storing the location
EmitEvent(ok) ==
    /\ geo.pc = "emit"
    /\ LET e == Head(geo.pending)
           d == geo.device_id
           was == geo.latest[d][e.region_name]
           g == [geo EXCEPT
                   !.latest[d][e.region_name] = e.event_type,
                   !.unpairedExit = @ \/ (e.event_type = "exit" /\ was # "enter"),
                   !.doubleEnter = @ \/ (e.event_type = "enter" /\ was = "enter"),
                   !.pending = Tail(@)]
       IN geo' = IF ~ok THEN [geo EXCEPT !.pc = "idle", !.pending = <<>>]
                 ELSE IF Tail(geo.pending) = <<>> THEN Stored(g, d, geo.current)
                 ELSE g
    /\ UNCHANGED <<connVars, spkVars, cacheVars, regVars, exceptGeo>>

NoFunction ==
    /\ wjob = NoJob /\ conv = NoConv
    /\ pump = NoPump /\ task = NoTask /\ geo = NoGeo

CacheInit == CachesEmpty /\ NoConnection /\ RegistryEmpty /\ NoFunction

CacheSpec == CacheInit /\ [][CacheNext]_vars

\* the caches once initialize_models has loaded a speaker model
EnginesLoaded ==
    /\ tts_model = "kokoro-multi-lang-v1_0"
    /\ speaker_model \in {"nemo-speakernet", "3dspeaker"}
    /\ tts_engines = [m \in TtsModels |-> IF m = tts_model THEN <<1>> ELSE NoEngine]
    /\ speaker_engines = [m \in SpeakerModels |->
                             IF m = speaker_model THEN <<2, 3>> ELSE NoEngine]
    /\ phase = "serving"
    /\ call = [c \in Callers |-> NoCall]
    /\ running = 0 /\ nObjs = 3 /\ nCalls = 0
    /\ ctor = NoCtor

RegistryNext ==
    \/ \E c \in Enrollers, via \in {"stream", "direct"}, name \in Names,
          e \in Embeddings, ready \in BOOLEAN : Register(c, via, name, e, ready)
    \/ \E c \in Enrollers, saveOk \in BOOLEAN : Save(c, saveOk)
    \/ \E known \in KnownSpeakers : Restart(known)

RegistryInit == EnginesLoaded /\ NoConnection /\ RegistryEmpty /\ NoFunction

RegistrySpec == RegistryInit /\ [][RegistryNext]_vars

\* the registry with deletions and identifications as well
DeleteNext ==
    \/ RegistryNext
    \/ \E name \in Names : Delete(name)
    \/ \E found \in Names : Identify(found)

DeleteSpec == RegistryInit /\ [][DeleteNext]_vars

WriteNext ==
    \/ JobLoop
    \/ JobChunk
    \/ \E outcome \in EngineOutcomes, len \in AudioLens : JobReturn(outcome, len)

WriteInit ==
    /\ NoConnection /\ CacheLoaded /\ RegistryEmpty
    /\ wjob \in { JobStart(text, sp, rate) :
                     text \in WriteTexts, sp \in BOOLEAN, rate \in Rates }
    /\ conv = NoConv /\ pump = NoPump /\ task = NoTask /\ geo = NoGeo

WriteSpec == WriteInit /\ [][WriteNext]_vars


Init ==
    /\ (TtsInit \/ SpkIdInit \/ SpkRegInit \/ AsrInit)
    /\ CacheLoaded /\ RegistryEmpty /\ NoFunction

Next == TtsStep \/ SpkStep \/ RegStep \/ AsrStep \/ PeerDisconnect

Spec == Init /\ [][Next]_vars

\* the pumps and the worker threads are scheduled fairly; the peer owes nothing
FairSpec ==
    /\ Spec
    /\ WF_vars(RecvDisconnect)
    /\ WF_vars(\E w \in Frames : OnProcessPut(w))
    /\ WF_vars(\E w \in Frames, o \in EngineOutcomes : WriteResume(w, o))
    /\ WF_vars(SendPoll) /\ WF_vars(SendWake) /\ WF_vars(SendComplete)
    /\ WF_vars(SendFail) /\ WF_vars(TtsFinally)
    /\ WF_vars(\E ready \in BOOLEAN, found \in SearchResults : RunIter(ready, found))
    /\ WF_vars(SpkRecvDisconnect) /\ WF_vars(SpkSendWake)
    /\ WF_vars(SpkSendComplete) /\ WF_vars(SpkSendFail) /\ WF_vars(SpkFinally)
    /\ WF_vars(RegRecvDisconnect) /\ WF_vars(RegSend)
    /\ WF_vars(\E n \in ReadyResults : AsrRunIter(n))
    /\ WF_vars(AsrRecvDisconnect) /\ WF_vars(AsrSendWake)
    /\ WF_vars(AsrSendComplete) /\ WF_vars(AsrSendFail) /\ WF_vars(AsrFinally)

ConvNext ==
    \/ Resample
    \/ \E cast \in CastOutcomes : EncodeChunk(cast)
    \/ \E cast \in CastOutcomes : EncodeResponse(cast)

ConvInit ==
    /\ NoConnection /\ CacheLoaded /\ RegistryEmpty
    /\ wjob = NoJob /\ pump = NoPump /\ task = NoTask /\ geo = NoGeo
    /\ conv \in { ConvStart(path, x, n, target, native) :
                     path \in Paths, x \in Samples, n \in 0..MaxSamples,
                     target \in SampleRates, native \in SampleRates }

\* the conversions of one chunk or one response
ConvSpec == ConvInit /\ [][ConvNext]_vars

\* one Speaker stream: writes, close() calls and reads in any order
SpkStreamInit == SpkIdInit /\ CacheLoaded /\ RegistryEmpty /\ NoFunction

SpkStreamSpec == SpkStreamInit /\ [][SpkStreamNext]_vars

\* the sending pump of one TTS connection over the results of its stream
PumpNext == PumpRead \/ PumpFrame \/ PumpJson \/ PumpRaise

PumpInit ==
    /\ NoConnection /\ CacheLoaded /\ RegistryEmpty
    /\ wjob = NoJob /\ conv = NoConv /\ task = NoTask /\ geo = NoGeo
    /\ pump \in { PumpStart(q, chunk_size) :
                     q \in QueuesUpTo(MaxResults), chunk_size \in 1..MaxChunkSize }

PumpSpec == PumpInit /\ [][PumpNext]_vars

\* the URL processor over one batch of rows
TaskNext ==
    \/ \E dbOk \in BOOLEAN : MarkProcessing(dbOk)
    \/ \E outcome \in ScrapeOutcomes : ScrapeTweet(outcome)
    \/ \E dbOk \in BOOLEAN : MarkDone(dbOk)
    \/ NextTask

TaskInit ==
    /\ NoConnection /\ CacheLoaded /\ RegistryEmpty
    /\ wjob = NoJob /\ conv = NoConv /\ pump = NoPump /\ geo = NoGeo
    /\ task \in { TaskStart(batch) : batch \in BatchesUpTo(MaxTasks) }

TaskSpec == TaskInit /\ [][TaskNext]_vars

\* the georegion detector over a few GPS readings
GeoNext ==
    \/ \E d \in Devices, pos \in Positions : ProcessRow(d, pos)
    \/ \E ok \in BOOLEAN : EmitEvent(ok)

GeoInit ==
    /\ NoConnection /\ CacheLoaded /\ RegistryEmpty
    /\ wjob = NoJob /\ conv = NoConv /\ pump = NoPump /\ task = NoTask
    /\ geo = GeoStart

GeoSpec == GeoInit /\ [][GeoNext]_vars

\* one ASR connection on its own
AsrConnInit == AsrInit /\ CacheLoaded /\ RegistryEmpty /\ NoFunction

AsrNext == AsrStep \/ PeerDisconnect

AsrSpec ==
    /\ AsrConnInit /\ [][AsrNext]_vars
    /\ WF_vars(\E n \in ReadyResults : AsrRunIter(n))
    /\ WF_vars(AsrRecvDisconnect) /\ WF_vars(AsrSendWake)
    /\ WF_vars(AsrSendComplete) /\ WF_vars(AsrSendFail) /\ WF_vars(AsrFinally)

\* one ASR stream: writes, close() calls and reads in any order
AsrStreamSpec == AsrConnInit /\ [][AsrStreamNext]_vars

\* ------------------------------------------------------------------ claims
Terminated == {"done", "raised", "none"}

InFlight(s) == { w \in Frames : writes[w].pc = "to_thread" /\ writes[w].self = s }

\* TTSStream.read / SpeakerStream.read called now: what it returns, or that it
\* stays suspended in outbuf.get()
Read(s) == IF outbuf[s] = <<>> THEN [obj |-> "suspended"] ELSE Head(outbuf[s])

\* C1: a write that ends without an engine exception has put exactly one
\* finished=true result, no write ever puts two, and no non-final result of a
\* write is put after its final one.
C1_OneFinalLast ==
    \A w \in Frames :
        /\ mon.finals[w] <= 1
        /\ ~mon.lateChunk[w]
        /\ writes[w].pc = "done" => mon.finals[w] = 1
        /\ writes[w].pc \in {"idle", "to_thread"} => mon.finals[w] = 0

\* a write of two segments is over, its chunks and its final result were put
C1_Witness ==
    \E w \in Frames, s \in Streams :
        /\ writes[w].pc = "done" /\ mon.finals[w] = 1
        /\ mon.last[s] = <<w, 2>>

\* C2: a stream has at most one engine call in flight, and its non-final
\* results are put in the order of the segments, over all its writes.
C2_SequentialInOrder ==
    \A s \in Streams :
        /\ Cardinality(InFlight(s)) <= 1
        /\ ~mon.reordered[s]

\* without interruption the second write puts a chunk of its second segment
\* on the stream the first write used
C2_Witness ==
    /\ ~interrupt /\ nStreams = 1
    /\ mon.last[1] = <<2, 2>>

\* C3: with interrupt enabled every text goes to a stream created for it, after
\* close() was called on every earlier stream, and never to a closed stream.
C3_CloseThenReplace ==
    (kind = "tts" /\ interrupt) =>
        /\ ~mon.wroteClosed
        /\ ~mon.openOld
        /\ \A w \in Frames : writes[w].pc = "to_thread" => writes[w].self = nStreams
        /\ \A s \in 1..nStreams : s # tts_stream => closeCalls[s] >= 1

\* the second text is being synthesized on the replacement of a closed stream
C3_Witness ==
    /\ interrupt /\ nStreams = 2 /\ tts_stream = 2
    /\ closeCalls[1] = 1 /\ is_closed[1]
    /\ writes[2].pc = "to_thread" /\ writes[2].self = 2

\* C4: every non-empty text frame is eventually followed by its finished=true
\* summary being sent, unless the transport closes or an engine call raises.
C4_SummaryEventuallySent ==
    \A w \in Frames :
        (writes[w].pc # "idle") ~>
            \/ w \in mon.sentFinal
            \/ transport = "disconnected"
            \/ \E v \in Frames : writes[v].pc = "raised"

\* C5: once the sentinel is on a TTS stream's queue, no result is put on it.
C5_NothingAfterSentinel ==
    kind = "tts" => \A s \in Streams : ~mon.afterEnd[s]

\* C6: on a closed stream whose sentinel has been read, read() returns the
\* sentinel again.
C6_ReadAfterCloseReturnsSentinel ==
    \A s \in Streams :
        (is_closed[s] /\ mon.endsRead[s] >= 1) => IsNone(Read(s))

\* C7: close() is called at most once on a stream object, and a handler that
\* has finished has called it on every stream it created.
C7_ClosedExactlyOnce ==
    /\ \A s \in Streams : closeCalls[s] <= 1
    /\ hpc = "finished" => \A s \in 1..nStreams : closeCalls[s] = 1

\* a TTS handler that replaced a stream by interruption has finished
C7_Witness ==
    /\ kind = "tts" /\ hpc = "finished" /\ nStreams = 2
    /\ closeCalls[1] = 1 /\ closeCalls[2] = 1

\* C8: after the transport disconnects both pumps eventually terminate.
C8_PumpsTerminate ==
    (transport = "disconnected") ~> (recvPc \in Terminated /\ sendPc \in Terminated)

\* C9: for each engine function the constructor succeeds at most once and is
\* not invoked again after it succeeded, and every request of a connection
\* handler that returns gets the one handle the cache holds.
C9_OneConstruction ==
    \A fn \in Fns :
        /\ ctor.built[fn] <= 1
        /\ ~ctor.afterBuilt[fn]
        /\ Cardinality(ctor.handed[fn]) <= 1
        /\ ctor.handed[fn] \subseteq {Entry(fn)}

\* two callers were served the same speaker engine, constructed once
C9_Witness ==
    /\ ctor.built["load_speaker_engine"] = 1
    /\ \A c \in Callers :
          /\ call[c].fn = "load_speaker_engine" /\ call[c].st = "ok"
          /\ call[c].h = speaker_engines[speaker_model]
    /\ ctor.handed["load_speaker_engine"] = {speaker_engines[speaker_model]}

\* C10: a construction that fails ends its request with the exception and
\* leaves no entry: the cache holds only handles a constructor returned (or
\* the reload of one), so a request after a failure constructs again.
C10_FailureNotCached ==
    \A fn \in Fns :
        /\ ctor.failed[fn] <= ctor.raisedTo[fn]
        /\ ctor.built[fn] = 0 => Entry(fn) = NoEngine
        /\ ctor.handed[fn] \subseteq
               ctor.made[fn] \cup { Reloaded(h, n) : h \in ctor.made[fn], n \in 0..nObjs }

\* a TTS request failed in construction and a later one constructed the engine
C10_Witness ==
    /\ ctor.failed["get_tts_engine"] >= 1 /\ ctor.raisedTo["get_tts_engine"] >= 1
    /\ ctor.built["get_tts_engine"] = 1
    /\ \E c \in Callers : call[c].st = "ok" /\ call[c].h = tts_engines[tts_model]
                          /\ call[c].h # NoEngine

\* C11: an entry the cache holds is never evicted or replaced: every step
\* leaves a present entry of either cache identical.
C11_EntryNeverReplaced ==
    [][ /\ \A m \in TtsModels :
              tts_engines[m] # NoEngine => tts_engines'[m] = tts_engines[m]
        /\ \A m \in SpeakerModels :
              speaker_engines[m] # NoEngine =>
                  speaker_engines'[m] = speaker_engines[m] ]_vars

\* C12: on a speaker connection every verdict was computed from a buffer of
\* at least 3.0 seconds, and a stream closed with a shorter buffer has put
\* none for it.
C12_NoVerdictBelowMinimum ==
    kind \in {"speaker_id", "speaker_register"} =>
        /\ \A s \in Streams : \A i \in DOMAIN outbuf[s] :
              outbuf[s][i].obj = "SpeakerResult" =>
                  outbuf[s][i].embeddings >= 3 * samplerate
        /\ cur.obj = "SpeakerResult" => cur.embeddings >= 3 * samplerate

\* a speaker stream was closed with two seconds buffered and holds no verdict
C12_Witness ==
    /\ kind = "speaker_id" /\ is_closed[speaker_stream]
    /\ audio_buffer = 2 * samplerate
    /\ outbuf[speaker_stream] = <<None>>

C14_VerdictShapes ==
    kind \in {"speaker_id", "speaker_register"} =>
        /\ ~mon.misnamed
        /\ \A s \in Streams : \A i \in DOMAIN outbuf[s] :
              outbuf[s][i].obj = "SpeakerResult" =>
                  /\ outbuf[s][i].embeddings > 0
                  /\ \/ outbuf[s][i].speaker_id = "unknown" /\ outbuf[s][i].confidence = 0
                     \/ outbuf[s][i].confidence >= identification_threshold

\* a verdict naming an enrolled speaker is queued on a stream with the NeMo
\* default threshold
C14_Witness ==
    /\ kind = "speaker_id" /\ identification_threshold = 60
    /\ \E i \in DOMAIN outbuf[speaker_stream] :
          /\ outbuf[speaker_stream][i].obj = "SpeakerResult"
          /\ outbuf[speaker_stream][i].speaker_id = "alice"
          /\ outbuf[speaker_stream][i].confidence = 65

\* C15: on an enrollment connection register_speaker is invoked at most once
\* and only on at least 5.0 seconds of buffered audio; only "recording"
\* messages are sent before the invocation; after it one success or error
\* message is sent (unless its send raises) and no further frame is consumed
C15_OneRegistration ==
    kind = "speaker_register" =>
        /\ mon.registers <= 1
        /\ ~mon.earlyRegister
        /\ ~mon.outOfOrder
        /\ mon.terminals <= mon.registers
        /\ (hpc = "finished" /\ mon.registers = 1 /\ ~mon.termFailed)
               => mon.terminals = 1

C15_Witness ==
    /\ kind = "speaker_register" /\ hpc = "finished"
    /\ nFrames = 2 /\ reg_buffer >= 5 * samplerate
    /\ mon.registers = 1 /\ mon.terminals = 1

\* C16: a success message of an enrollment is sent only when the file of the
\* active model holds the name with the embedding just computed (so an
\* enrollment whose save fails reports an error)
C16_SuccessMeansPersisted ==
    (cur.obj = "status" /\ cur.status = "success") =>
        speaker_files[FileOfModel(speaker_model)][cur.name] = cur.embeddings

\* C17: once a name has been enrolled with success twice, with embedding e1
\* and then with e2 of the model's dimension, the manager in memory and the
\* file of the active model both map the name to e2
C17_LastWriteWins ==
    \A n \in Names :
        ( /\ reg.wins[n] = 2 /\ reg.prev[n] # reg.last[n]
          /\ reg.prev[n][1] = ManagerDim(speaker_model)
          /\ reg.last[n][1] = ManagerDim(speaker_model)
          /\ ~reg.saveFailed
          /\ \A c \in Enrollers : enroll[c].pc # "save" )
        => /\ manager[n] = reg.last[n]
           /\ speaker_files[FileOfModel(speaker_model)][n] = reg.last[n]

\* C18: every embedding stored for the active speaker model, in the manager
\* and in the model's file, has the model's dimension (256 for
\* nemo-speakernet, 512 otherwise)
C18_StoredDimensions ==
    \A n \in Names :
        /\ manager[n] # NoEmbedding => manager[n][1] = ManagerDim(speaker_model)
        /\ speaker_files[FileOfModel(speaker_model)][n] # NoEmbedding =>
              speaker_files[FileOfModel(speaker_model)][n][1] = ManagerDim(speaker_model)

\* C19: when two enrollments of different names have both completed with
\* success and no write of a file has failed, the persisted registry holds
\* both names, whatever the interleaving of the two
C19_NoLostUpdate ==
    \A c1 \in Enrollers, c2 \in Enrollers :
        ( /\ c1 # c2
          /\ enroll[c1].pc = "done" /\ enroll[c1].result = "success"
          /\ enroll[c2].pc = "done" /\ enroll[c2].result = "success"
          /\ enroll[c1].name # enroll[c2].name
          /\ ~reg.saveFailed )
        => /\ speaker_files[FileOfEmbedding(enroll[c1].emb)][enroll[c1].name] # NoEmbedding
           /\ speaker_files[FileOfEmbedding(enroll[c2].emb)][enroll[c2].name] # NoEmbedding

C19_Witness ==
    /\ enroll[1].pc = "done" /\ enroll[1].via = "stream" /\ enroll[1].result = "success"
    /\ enroll[2].pc = "done" /\ enroll[2].via = "stream" /\ enroll[2].result = "success"
    /\ enroll[1].name = "alice" /\ enroll[2].name = "bob"
    /\ speaker_files[FileOfModel(speaker_model)]["alice"] = enroll[1].emb
    /\ speaker_files[FileOfModel(speaker_model)]["bob"] = enroll[2].emb

\* C20: a frame of odd byte length written to a Speaker stream is dropped and
\* the connection goes on: while the peer is connected the receiving pump of a
\* speaker_id connection has not ended with an exception
C20_OddFrameDropped ==
    (kind = "speaker_id" /\ transport = "open") => recvPc # "raised"

\* C21: a write whose text holds only blanks (and, when splitting, delimiters)
\* never calls the engine, puts no non-final result and ends with exactly one
\* final result whose audio_duration is 0
C21_EmptyTextOnlySummary ==
    ( /\ wjob.pc # "none"
      /\ \A i \in DOMAIN wjob.text :
            wjob.text[i] \in Whitespace \cup (IF wjob.split THEN Delimiters ELSE {}) )
    => /\ wjob.calls = <<>>
       /\ wjob.pc \in {"loop", "done"}
       /\ wjob.pc = "loop" => wjob.out = <<>>
       /\ wjob.pc = "done" =>
             /\ Len(wjob.out) = 1
             /\ wjob.out[1].finished /\ wjob.out[1].audio_duration = 0

\* the write of ". ." with split is over
C21_Witness ==
    /\ wjob.pc = "done" /\ wjob.split
    /\ wjob.text = <<".", " ", ".">>
    /\ Len(wjob.out) = 1 /\ wjob.out[1].finished

\* C22: in a write that is over, a silence gap follows a synthesized segment
\* exactly when another non-empty segment comes after it in the same write
C22_GapOnlyBetweenSegments ==
    wjob.pc = "done" =>
        \A k \in DOMAIN wjob.audios :
            wjob.audios[k][2] = "ok" =>
                ( (\E i \in DOMAIN wjob.out :
                      /\ wjob.out[i].pcm_bytes = "silence"
                      /\ wjob.out[i].seg = wjob.audios[k][1])
                  <=> NextSeg(wjob.texts, wjob.audios[k][1] + 1) # 0 )

RECURSIVE SumOk(_)
SumOk(audios) ==
    IF audios = <<>> THEN 0
    ELSE (IF Head(audios)[2] = "ok" THEN Head(audios)[3] ELSE 0) + SumOk(Tail(audios))

Silences(out) == Cardinality({ i \in DOMAIN out : out[i].pcm_bytes = "silence" })

\* C23: a write during which the engine never raised has handed every
\* non-empty segment to the engine, in order, also after a null or empty
\* result; it ends with exactly one final result, whose duration is that of
\* the segments that succeeded (with their gaps)
C23_FailedSegmentSkipped ==
    wjob.pc = "done" =>
        /\ \A j \in DOMAIN wjob.texts :
              Strip(wjob.texts[j]) # <<>> <=> \E k \in DOMAIN wjob.calls : wjob.calls[k] = j
        /\ \A k \in DOMAIN wjob.calls :
              k > 1 => wjob.calls[k - 1] < wjob.calls[k]
        /\ Cardinality({ i \in DOMAIN wjob.out : wjob.out[i].finished }) = 1
        /\ wjob.out[Len(wjob.out)].finished
        /\ wjob.out[Len(wjob.out)].audio_duration =
              SumOk(wjob.audios) + Silences(wjob.out) * PauseSamples(wjob.rate)

\* the engine returned nothing for the first segment and audio for the second
C23_Witness ==
    /\ wjob.pc = "done" /\ Len(wjob.audios) = 2
    /\ wjob.audios[1][2] = "empty" /\ wjob.audios[2][2] = "ok"
    /\ wjob.out[Len(wjob.out)].audio_duration = wjob.audios[2][3]

\* C24: every result on the output queue of a write is either a non-final
\* chunk that carries PCM and has finished = FALSE, or the final summary,
\* which carries no PCM and has finished = TRUE
C24_ChunkOrSummary ==
    \A i \in DOMAIN wjob.out :
        \/ ~wjob.out[i].finished /\ wjob.out[i].pcm_bytes # "None"
        \/ wjob.out[i].finished /\ wjob.out[i].pcm_bytes = "None"

\* a finished write that put an engine chunk, a gap and the summary
C24_Witness ==
    /\ wjob.pc = "done" /\ Len(wjob.out) >= 3
    /\ \E i \in DOMAIN wjob.out : wjob.out[i].pcm_bytes = "pcm"
    /\ \E i \in DOMAIN wjob.out : wjob.out[i].pcm_bytes = "silence"
    /\ wjob.out[Len(wjob.out)].pcm_bytes = "None"

\* C25: the final summary of a finished write carries the totals of the
\* write: its sample count is the number of samples of the synthesized
\* segments and their gaps, and its duration is the sum of their durations
C25_SummaryTotals ==
    wjob.pc = "done" =>
        /\ wjob.out[Len(wjob.out)].audio_size =
              SumOk(wjob.audios) + Silences(wjob.out) * PauseSamples(wjob.rate)
        /\ wjob.out[Len(wjob.out)].audio_duration =
              SumOk(wjob.audios) + Silences(wjob.out) * PauseSamples(wjob.rate)

\* C26: on an ASR connection the reading pump never reads past the end
\* sentinel: it reads results, at most one sentinel, and returns when it reads
\* it; once the stream has been closed the pump's reads terminate
C26_AsrReadsTerminate ==
    /\ [](kind = "asr" =>
            /\ mon.endsRead[asr_stream] <= 1
            /\ (sendPc = "done" <=> mon.endsRead[asr_stream] = 1)
            /\ sendPc = "send" => ~IsNone(cur))
    /\ (kind = "asr" /\ closeCalls[asr_stream] > 0) ~> (sendPc \in {"done", "raised"})

\* chunks were written, the stream was closed while the pump was suspended in
\* read(), and the pump returned on the sentinel
C26_Witness ==
    /\ kind = "asr" /\ nFrames > 1 /\ closeCalls[asr_stream] = 1
    /\ recvPc = "raised" /\ sendPc = "done"
    /\ mon.endsRead[asr_stream] = 1 /\ outbuf[asr_stream] = <<>>

Sentinels(q) == Cardinality({ i \in DOMAIN q : IsNone(q[i]) })

\* C27: close() on an ASR stream is idempotent: a call on a stream that is
\* already closed changes nothing of the stream, and however often close()
\* is called the reader is given exactly one end sentinel
C27_AsrCloseIdempotent ==
    /\ [][(closeCalls'[asr_stream] > closeCalls[asr_stream] /\ is_closed[asr_stream])
            => UNCHANGED <<is_closed, outbuf, inbuf, runPc>>]_vars
    /\ [](closeCalls[asr_stream] > 0 =>
            mon.endsRead[asr_stream] + Sentinels(outbuf[asr_stream]) = 1)

\* close() was called twice after a write and the reader got one sentinel
C27_Witness ==
    /\ kind = "asr" /\ closeCalls[asr_stream] = 2 /\ nFrames > 0
    /\ mon.endsRead[asr_stream] = 1 /\ outbuf[asr_stream] = <<>>

\* C28: a sample converted to 16-bit PCM is the clipped, truncated value of
\* the sample scaled by 32768, so a sample at or beyond full scale saturates
\* and keeps its sign, on the chunk path and on the request/response path
C28_ClippedNotWrapped ==
    (conv.pc = "done" /\ conv.path \in {"on_process", "generate_speech"}) =>
        /\ conv.pcm = TruncDiv(Clip(Scale(conv.sample)), Den)
        /\ conv.sample >= Den => conv.pcm = Int16Max
        /\ conv.sample <= -Den => conv.pcm = Int16Min

\* C29: a chunk of n samples resampled between unequal rates has
\* round(n * target / native) samples, and is passed through for equal rates
C29_ResampledLength ==
    (conv.pc \in {"resampled", "done"} /\ conv.path \in {"on_process", "generate"}) =>
        conv.len = IF conv.target = conv.native THEN conv.n
                   ELSE Round(conv.n * conv.target, conv.native)

\* C30: a Speaker stream that has been closed holds no buffered audio: its
\* accumulation buffer is empty and no input chunk is left in its queue
C30_ClosedHoldsNoAudio ==
    (kind = "speaker_id" /\ is_closed[speaker_stream]) =>
        audio_buffer = 0 /\ inbuf = <<>>

\* C31: a write() on a closed Speaker stream is not accepted: it leaves the
\* input queue and the buffer as they are, and no verdict is put on the
\* output queue after the end sentinel
C31_NoWriteAfterClose ==
    /\ [][(kind = "speaker_id" /\ is_closed[speaker_stream] /\ nFrames' > nFrames)
            => UNCHANGED <<inbuf, audio_buffer>>]_vars
    /\ [](kind = "speaker_id" => ~mon.afterEnd[speaker_stream])

\* C34: once close() has been called on a Speaker stream its processing loop
\* eventually terminates, also when no further input arrives
C34_RunLoopTerminates ==
    (kind = "speaker_id" /\ closeCalls[speaker_stream] > 0) ~> (runPc = "done")

RECURSIVE BytesOf(_, _)
BytesOf(sent, k) ==
    IF sent = <<>> THEN <<>>
    ELSE (IF Head(sent).r = k /\ Head(sent).kind = "bytes" THEN Head(sent).data ELSE <<>>)
         \o BytesOf(Tail(sent), k)

MessagesOf(sent, k) == { j \in DOMAIN sent : sent[j].r = k }

\* results whose sending is over
SentResults ==
    { k \in 1..pump.r : k < pump.r \/ pump.pc \in {"read", "done"} }

\* C32: with chunk_size >= 1 a non-final result is sent as binary frames that
\* concatenate to its payload, each of at most chunk_size bytes and all but
\* the last of exactly chunk_size bytes; a final result is sent as exactly
\* one JSON message; messages go out in the order the results were read
C32_FramesCarryPayload ==
    /\ \A j \in DOMAIN pump.sent : j > 1 => pump.sent[j - 1].r <= pump.sent[j].r
    /\ \A k \in SentResults :
          LET ms == MessagesOf(pump.sent, k)
          IN IF pump.all[k].finished
             THEN Cardinality(ms) = 1 /\ \A j \in ms : pump.sent[j].kind = "json"
             ELSE /\ BytesOf(pump.sent, k) = pump.all[k].pcm_bytes
                  /\ \A j \in ms :
                        /\ pump.sent[j].kind = "bytes"
                        /\ Len(pump.sent[j].data) <= pump.chunk_size
                        /\ (\E l \in ms : l > j) => Len(pump.sent[j].data) = pump.chunk_size

\* a payload of 4 bytes went out as frames of 3 and 1 bytes, then the summary
C32_Witness ==
    /\ pump.pc = "done" /\ pump.chunk_size = 3 /\ Len(pump.sent) = 3
    /\ Len(pump.sent[1].data) = 3 /\ Len(pump.sent[2].data) = 1
    /\ pump.sent[3].kind = "json"

\* C33: when the receiving pump of an ASR, Speaker or TTS connection has
\* returned on an empty frame, the stream is eventually closed, the sending
\* pump reads the sentinel and returns, and the handler finishes
C33_EmptyFrameEndsHandler ==
    (kind \in {"asr", "speaker_id", "tts"} /\ recvPc = "done")
        ~> (hpc = "finished" /\ sendPc = "done")

\* C35: a write on a TTS stream that has been closed starts no further
\* engine call: only the call in flight when close() was called goes on
C35_NoCallAfterClose ==
    [][\A w \in Frames :
          ( /\ writes[w].pc = "to_thread" /\ writes'[w].pc = "to_thread"
            /\ writes'[w].idx # writes[w].idx )
          => ~is_closed[writes[w].self]]_vars

\* C36: a name deleted with success and not enrolled since is absent from
\* the registry in every form: GET /speakers does not list it, the manager
\* does not hold it and no verdict produced since carries it
C36_DeletedIsGone ==
    /\ ~reg.lateVerdict
    /\ \A n \in Names :
          reg.gone[n] => /\ n \notin Listed(speaker_files, speaker_model)
                         /\ manager[n] = NoEmbedding

\* C37: when process_task has returned for a task, the row is no longer in
\* status 'processing': it was marked completed or failed on every path
C37_NoTaskLeftProcessing ==
    \A j \in DOMAIN task.batch :
        (j < task.k \/ (j = task.k /\ task.pc \in {"returned", "idle"}))
            => task.status[j] # "processing"

\* C38: for every device and region the emitted events are well paired: an
\* exit only after an enter that no exit has followed yet, and never two
\* enters without an exit between them
C38_EventsWellPaired ==
    ~geo.unpairedExit /\ ~geo.doubleEnter

====
